---- MODULE Spec2Model ----
(***************************************************************************)
(* A model of the Unity raid oversight bot (src/index.js): the scan of a   *)
(* signup channel for the newest Raid-Helper event link, the role count of *)
(* an event's sign-ups, and the pipeline run that publishes the dashboard  *)
(* and the recruitment post by editing one message per destination; with   *)
(* the countRoles of src/unnamed/part_003 and the dashboard-only bot of    *)
(* src/unnamed/part_000 (updateDashboard).                                 *)
(***************************************************************************)
EXTENDS Integers, Sequences, FiniteSets, TLC

VARIABLES
    hist,        \* scanner check: the channel history being scanned
    desired,     \* scanner check: the totalDesired argument
    fs,          \* scanner check: the state of fetchRecentMessages
    found,       \* scanner check: the result of findLatestRaidHelperEventId
    entry,       \* count check: the sign-up processed last
    cpos,        \* count check: number of sign-ups processed so far
    counts,      \* count check: counts of countRoles in src/index.js
    counts3,     \* count check: counts of countRoles in src/unnamed/part_003
    counts2,     \* count check: counts of countRoles in src/unnamed/part_002
    gap,         \* gap check: the inputs and results of the need computations
    ex,          \* extraction check: a message and the result of extractEventIdFromMessage
    cfgId,       \* CONFIG.dashboardMessageId and CONFIG.recruitmentMessageId
    teamHist,    \* the history of every team's signup channel
    store,       \* the messages of the two destinations: id -> author, content
    sends,       \* per destination, the number of messages send() created
    runs,        \* the runs of the handlers: position, locals and a record of what was done
    timerArmed,  \* setInterval has been called
    today        \* the date new Date() gives

scanVars == <<hist, desired, fs, found>>
countVars == <<entry, cpos, counts, counts3, counts2>>
gapVars == <<gap>>
exVars == <<ex>>
pipeVars == <<cfgId, teamHist, store, sends, runs, timerArmed, today>>

Min(a, b) == IF a < b THEN a ELSE b
Max(a, b) == IF a > b THEN a ELSE b

\* ------------------------------------------------------------------------
\* Texts and event link extraction
\* ------------------------------------------------------------------------

\* A text is null, empty, or a string; a string is described by what the
\* regular expression of extractEventIdFromText can see in it: whether it
\* holds "<host>/event/<digits>", the host, the number of digits and the event
\* the leading digits name.
NullText == [kind |-> "null", host |-> "", digits |-> 0, ev |-> "none"]
EmptyText == [kind |-> "empty", host |-> "", digits |-> 0, ev |-> "none"]
PlainText == [kind |-> "plain", host |-> "", digits |-> 0, ev |-> "none"]
LinkText(host, digits, ev) == [kind |-> "link", host |-> host, digits |-> digits, ev |-> ev]

\* The value null of an event id, and an event id of n digits naming event ev.
NoEvent == [ev |-> "none", digits |-> 0]
EventId(ev, n) == [ev |-> ev, digits |-> n]

LowerHost(h) ==
    CASE h = "Raid-Helper.DEV" -> "raid-helper.dev"
      [] OTHER -> h

MinDigits == 10
MaxDigits == 30

extractEventIdFromText(text) ==
    IF text.kind \in {"null", "empty"} THEN NoEvent
    ELSE IF text.kind = "link"
            /\ LowerHost(text.host) = "raid-helper.dev"
            /\ text.digits >= MinDigits
         THEN EventId(text.ev, Min(text.digits, MaxDigits))
         ELSE NoEvent

Truthy(eventId) == eventId # NoEvent

NoEmbedField == [name |-> NullText, value |-> NullText]
NoEmbed == [url |-> NullText, title |-> NullText, description |-> NullText,
            fields |-> <<>>, authorUrl |-> NullText, footerText |-> NullText]

\* The first truthy extraction of a sequence of texts, or null.
RECURSIVE FirstOfTexts(_)
FirstOfTexts(texts) ==
    IF texts = <<>> THEN NoEvent
    ELSE IF Truthy(extractEventIdFromText(Head(texts)))
         THEN extractEventIdFromText(Head(texts))
         ELSE FirstOfTexts(Tail(texts))

RECURSIVE FieldTexts(_)
FieldTexts(fields) ==
    IF fields = <<>> THEN <<>>
    ELSE <<Head(fields).name, Head(fields).value>> \o FieldTexts(Tail(fields))

\* EmbedTexts looking at the fields after the author and the footer.
EmbedTextsFieldsLast(emb) ==
    <<emb.url, emb.title, emb.description, emb.authorUrl, emb.footerText>>
        \o FieldTexts(emb.fields)

EmbedTexts(emb) ==
    <<emb.url, emb.title, emb.description>> \o FieldTexts(emb.fields)
        \o <<emb.authorUrl, emb.footerText>>

RECURSIVE EmbedsTexts(_)
EmbedsTexts(embeds) ==
    IF embeds = <<>> THEN <<>>
    ELSE EmbedTexts(Head(embeds)) \o EmbedsTexts(Tail(embeds))

RECURSIVE RowsTexts(_)
RowsTexts(rows) ==
    IF rows = <<>> THEN <<>>
    ELSE Head(rows) \o RowsTexts(Tail(rows))

\* msg.content, then every embed's texts in order, then the url of every
\* component of every row; the first match is returned.
extractEventIdFromMessage(msg) ==
    FirstOfTexts(<<msg.content>> \o EmbedsTexts(msg.embeds) \o RowsTexts(msg.components))

\* ------------------------------------------------------------------------
\* extractEventIdFromMessage on its own: every message of the bounds
\* ------------------------------------------------------------------------

MaxEmbeds == 2
MaxFields == 2
MaxRows == 2
MaxPerRow == 2

\* A place of a message where a text may stand: the content, a part of the
\* i-th embed (of its j-th field), the url of the j-th component of row i.
Place(kind, i, j, part) == [kind |-> kind, i |-> i, j |-> j, part |-> part]

EmbedParts == {"url", "title", "description", "authorUrl", "footerText"}

PlacesOfShape(ne, nf, nr) ==
    {Place("content", 0, 0, "content")}
        \cup {Place("embed", i, 0, part) : i \in 1..ne, part \in EmbedParts}
        \cup {Place("field", i, j, part) : i \in 1..ne, j \in 1..nf, part \in {"name", "value"}}
        \cup {Place("component", i, j, "url") : i \in 1..nr, j \in 1..MaxPerRow}

\* What a place holds when no text of interest was put there: a missing
\* url, author or footer, an empty content, a title or field without a link.
DefaultText(place) ==
    CASE place.kind = "content" -> EmptyText
      [] place.part \in {"url", "authorUrl", "footerText"} -> NullText
      [] OTHER -> PlainText

\* Texts of interest: two event links, a link of too few digits, a link to
\* another host.
PlacedTexts == {LinkText("raid-helper.dev", 19, "e1"), LinkText("Raid-Helper.DEV", 10, "e2"),
                LinkText("raid-helper.dev", 9, "e3"), LinkText("example.com", 19, "e3")}

\* The message of ne embeds of nf fields and nr rows that holds the texts put.
MessageOfShape(ne, nf, nr, put) ==
    LET T(place) == IF place \in DOMAIN put THEN put[place] ELSE DefaultText(place)
    IN  [id |-> 1,
         content |-> T(Place("content", 0, 0, "content")),
         embeds |-> [i \in 1..ne |->
            [url |-> T(Place("embed", i, 0, "url")),
             title |-> T(Place("embed", i, 0, "title")),
             description |-> T(Place("embed", i, 0, "description")),
             fields |-> [j \in 1..nf |-> [name |-> T(Place("field", i, j, "name")),
                                          value |-> T(Place("field", i, j, "value"))]],
             authorUrl |-> T(Place("embed", i, 0, "authorUrl")),
             footerText |-> T(Place("embed", i, 0, "footerText"))]],
         components |-> [i \in 1..nr |-> [j \in 1..MaxPerRow |->
                                             T(Place("component", i, j, "url"))]]]

ExStart == [pc |-> "start", msg |-> MessageOfShape(0, 0, 0, <<>>), eventId |-> NoEvent]

InitExIdle == ex = ExStart

\* extractEventIdFromMessage(msg) on one message.
ExtractCase ==
    /\ ex.pc = "start"
    /\ \E ne \in 0..MaxEmbeds, nf \in 0..MaxFields, nr \in 0..MaxRows :
          \E p1 \in PlacesOfShape(ne, nf, nr), p2 \in PlacesOfShape(ne, nf, nr),
             t1 \in PlacedTexts, t2 \in PlacedTexts :
              LET msg == MessageOfShape(ne, nf, nr, (p1 :> t1) @@ (p2 :> t2))
              IN  ex' = [pc |-> "extracted", msg |-> msg,
                         eventId |-> extractEventIdFromMessage(msg)]
    /\ UNCHANGED <<scanVars, countVars, pipeVars, gapVars>>

\* ------------------------------------------------------------------------
\* Channel histories
\* ------------------------------------------------------------------------

\* The shapes a message of a history takes in this model.
MsgShapes == {"content1", "content2", "embed1", "button2", "short1", "other1"}

Message(id, shape) ==
    [id |-> id,
     content |->
        CASE shape = "content1" -> LinkText("raid-helper.dev", 19, "e1")
          [] shape = "content2" -> LinkText("Raid-Helper.DEV", 19, "e2")
          [] shape = "short1" -> LinkText("raid-helper.dev", 9, "e1")
          [] shape = "other1" -> LinkText("example.com", 19, "e1")
          [] shape = "embed1" -> EmptyText
          [] OTHER -> PlainText,
     embeds |->
        IF shape = "embed1"
        THEN <<[NoEmbed EXCEPT !.title = PlainText,
                               !.fields = <<[name |-> PlainText,
                                             value |-> LinkText("raid-helper.dev", 19, "e1")]>>]>>
        ELSE <<>>,
     components |->
        IF shape = "button2"
        THEN <<<<NullText, LinkText("raid-helper.dev", 18, "e2")>>>>
        ELSE <<>>]

\* A history is its length and the shapes of the messages that are not plain
\* chat; message ids are positions, 1 the newest.
MsgAt(h, i) == Message(i, IF i \in DOMAIN h.marks THEN h.marks[i] ELSE "plain")

\* messages.fetch({limit, before}): the ids of the at most `limit` messages
\* older than `before` (0: from the newest), newest first.
FetchPage(h, limit, before) ==
    [j \in 1..Max(0, Min(limit, h.len - before)) |-> before + j]

\* ------------------------------------------------------------------------
\* fetchRecentMessages and findLatestRaidHelperEventId
\* ------------------------------------------------------------------------

PageLimit == 100
LOOKBACK_TOTAL == 50

\* Number(totalDesired) || 0, then Math.max(0, .): a non-numeric argument
\* gives NaN and so 0.
TotalOf(arg) == IF arg.kind = "num" THEN Max(0, arg.n) ELSE 0

\* LoopHead asking for a full page whatever is left to read.
LoopHeadFullPage(st) ==
    IF Len(st.all) < st.total
    THEN [st EXCEPT !.pc = "fetching",
                    !.reqs = Append(@, [limit |-> PageLimit, before |-> st.beforeId])]
    ELSE [st EXCEPT !.pc = "returned"]

\* The head of the while loop: leave it, or issue the next read.
LoopHead(st) ==
    IF Len(st.all) < st.total
    THEN [st EXCEPT !.pc = "fetching",
                    !.reqs = Append(@, [limit |-> Min(PageLimit, st.total - Len(st.all)),
                                        before |-> st.beforeId])]
    ELSE [st EXCEPT !.pc = "returned"]

fetchRecentMessagesStart(arg) ==
    LoopHead([total |-> TotalOf(arg), all |-> <<>>, beforeId |-> 0,
              reqs |-> <<>>, pc |-> "start"])

\* PageAnswer keeping the id of the newest message of the page as the key.
PageAnswerNewestKey(h, st) ==
    LET rq == st.reqs[Len(st.reqs)]
        batch == FetchPage(h, rq.limit, rq.before)
    IN  IF Len(batch) = 0 THEN [st EXCEPT !.pc = "returned"]
        ELSE LET st1 == [st EXCEPT !.all = @ \o batch, !.beforeId = batch[1]]
             IN  IF Len(batch) < rq.limit THEN [st1 EXCEPT !.pc = "returned"]
                 ELSE LoopHead(st1)

\* BatchAnswer without the two breaks: only the loop condition ends the loop.
BatchAnswerNoBreak(st, batch) ==
    LoopHead([st EXCEPT !.all = @ \o batch,
                        !.beforeId = IF Len(batch) = 0 THEN @ ELSE batch[Len(batch)]])

\* The rest of one iteration once the read issued last has answered with
\* batch: break on an empty page, accumulate, break on a short page.
BatchAnswer(st, batch) ==
    LET rq == st.reqs[Len(st.reqs)]
    IN  IF Len(batch) = 0 THEN [st EXCEPT !.pc = "returned"]
        ELSE LET st1 == [st EXCEPT !.all = @ \o batch, !.beforeId = batch[Len(batch)]]
             IN  IF Len(batch) < rq.limit THEN [st1 EXCEPT !.pc = "returned"]
                 ELSE LoopHead(st1)

\* The read issued last answered by the history h.
PageAnswer(h, st) ==
    BatchAnswer(st, FetchPage(h, st.reqs[Len(st.reqs)].limit, st.reqs[Len(st.reqs)].before))

RECURSIVE fetchRecentMessagesRun(_, _)
fetchRecentMessagesRun(h, st) ==
    IF st.pc = "returned" THEN st ELSE fetchRecentMessagesRun(h, PageAnswer(h, st))

fetchRecentMessages(h, arg) == fetchRecentMessagesRun(h, fetchRecentMessagesStart(arg))

\* MessageLoop without the return inside the loop: the last match wins.
MessageLoopLast(h, all, i) ==
    LET hits == {j \in i..Len(all) : Truthy(extractEventIdFromMessage(MsgAt(h, all[j])))}
    IN  IF hits = {} THEN [eventId |-> NoEvent, inspected |-> Len(all)]
        ELSE [eventId |-> extractEventIdFromMessage(
                              MsgAt(h, all[CHOOSE j \in hits : \A k \in hits : k <= j])),
              inspected |-> Len(all)]

\* The message loop over `all` from index i: it returns at the first message,
\* in the order of `all`, whose extraction is truthy, and null after the last;
\* `inspected` is the number of messages it looked at.
MessageLoop(h, all, i) ==
    LET hits == {j \in i..Len(all) : Truthy(extractEventIdFromMessage(MsgAt(h, all[j])))}
    IN  IF hits = {} THEN [eventId |-> NoEvent, inspected |-> Len(all)]
        ELSE LET first == CHOOSE j \in hits : \A k \in hits : j <= k
             IN  [eventId |-> extractEventIdFromMessage(MsgAt(h, all[first])),
                  inspected |-> first]

NotYet == [eventId |-> NoEvent, inspected |-> -1]

FindAfter(h, st) == IF st.pc = "returned" THEN MessageLoop(h, st.all, 1) ELSE NotYet

findLatestRaidHelperEventId(h) ==
    MessageLoop(h, fetchRecentMessages(h, [kind |-> "num", n |-> LOOKBACK_TOTAL]).all, 1).eventId

\* ------------------------------------------------------------------------
\* Strings of sign-up entries and countRoles
\* ------------------------------------------------------------------------

\* A string is a sequence of pieces: " " is white space, every other piece a
\* run of letters no needle of the code straddles. A missing field is Undefined.
Undefined == <<"#undefined">>

Falsy(v) == v = Undefined \/ v = <<>>
OrElse(v, w) == IF Falsy(v) THEN w ELSE v

LowerPiece(t) ==
    CASE t = "Tank" -> "tank"
      [] t = "Heal" -> "heal"
      [] t = "Melee" -> "melee"
      [] t = "Ranged" -> "ranged"
      [] t = "DPS" -> "dps"
      [] t = "Damage" -> "damage"
      [] t = "Bench" -> "bench"
      [] t = "Late" -> "late"
      [] t = "Tentative" -> "tentative"
      [] t = "Absence" -> "absence"
      [] t = "Primary" -> "primary"
      [] t = "Holy" -> "holy"
      [] t = "BENCH" -> "bench"
      [] t = "Warrior" -> "warrior"
      [] t = "Dealer" -> "dealer"
      [] t = "Support" -> "support"
      [] OTHER -> t

toLowerCase(str) == [i \in DOMAIN str |-> LowerPiece(str[i])]

RECURSIVE trimStart(_)
trimStart(str) ==
    IF str # <<>> /\ Head(str) = " " THEN trimStart(Tail(str)) ELSE str

RECURSIVE trimEnd(_)
trimEnd(str) ==
    IF str # <<>> /\ str[Len(str)] = " " THEN trimEnd(SubSeq(str, 1, Len(str) - 1)) ELSE str

trim(str) == trimEnd(trimStart(str))

includes(str, needle) ==
    \E i \in 1..(Len(str) - Len(needle) + 1) : SubSeq(str, i, i + Len(needle) - 1) = needle

meleeHealerSpecs == {<<"Mistweaver">>, <<"Holy">>, <<"Holy", "1">>}

ZeroCounts == [tanks |-> 0, healers |-> 0, melee |-> 0, ranged |-> 0, mh |-> 0, rh |-> 0]

\* CountHealer testing the spec name in lower case against the set in lower
\* case.
CountHealerAnyCase(c, s) ==
    IF toLowerCase(OrElse(s.specName, <<>>)) \in {toLowerCase(m) : m \in meleeHealerSpecs}
    THEN [c EXCEPT !.healers = @ + 1, !.mh = @ + 1]
    ELSE [c EXCEPT !.healers = @ + 1, !.rh = @ + 1]

\* CountHealer with the else of the spec test lost: rh is never counted.
CountHealerMeleeOnly(c, s) ==
    IF OrElse(s.specName, <<>>) \in meleeHealerSpecs
    THEN [c EXCEPT !.healers = @ + 1, !.mh = @ + 1]
    ELSE [c EXCEPT !.healers = @ + 1]

\* The healer branch: healers and one of mh, rh.
CountHealer(c, s) ==
    IF OrElse(s.specName, <<>>) \in meleeHealerSpecs
    THEN [c EXCEPT !.healers = @ + 1, !.mh = @ + 1]
    ELSE [c EXCEPT !.healers = @ + 1, !.rh = @ + 1]

\* src/index.js: the filter keeps a sign-up whose className is none of the
\* four special buckets and whose status, "primary" when missing, is primary.
ignoreClass == {<<"Late">>, <<"Bench">>, <<"Tentative">>, <<"Absence">>}

IsPrimary(s) ==
    /\ OrElse(s.className, <<>>) \notin ignoreClass
    /\ toLowerCase(OrElse(s.status, <<"primary">>)) = <<"primary">>

\* src/index.js: the loop body over the sign-ups kept.
CountPrimary(c, s) ==
    LET role == OrElse(s.roleName, <<>>)
    IN  IF role = <<"Tank", "s">> THEN [c EXCEPT !.tanks = @ + 1]
        ELSE IF role = <<"Heal", "ers">> THEN CountHealer(c, s)
        ELSE IF role = <<"Melee">> THEN [c EXCEPT !.melee = @ + 1]
        ELSE IF role = <<"Ranged">> THEN [c EXCEPT !.ranged = @ + 1]
        ELSE c

CountSignUp(c, s) == IF IsPrimary(s) THEN CountPrimary(c, s) ELSE c

RECURSIVE CountAll(_, _)
CountAll(c, list) ==
    IF list = <<>> THEN c ELSE CountAll(CountSignUp(c, Head(list)), Tail(list))

countRoles(eventJson) == CountAll(ZeroCounts, eventJson.signUps)

\* src/unnamed/part_003: the later countRoles, for both Raid-Helper templates.
normalize(str) == toLowerCase(trim(OrElse(str, <<>>)))

ignoreClass3 == {<<"late">>, <<"bench">>, <<"tentative">>, <<"absence">>}

\* The loop body with the `continue` of the tank and healer branches lost.
CountSignUp3FallThrough(c, s) ==
    LET bucket == normalize(OrElse(s.roleName, s.className))
        c1 == IF includes(bucket, <<"tank">>) THEN [c EXCEPT !.tanks = @ + 1] ELSE c
        c2 == IF includes(bucket, <<"heal">>) THEN CountHealer(c1, s) ELSE c1
        c3 == IF includes(bucket, <<"melee">>) THEN [c2 EXCEPT !.melee = @ + 1] ELSE c2
    IN  IF normalize(s.className) \in ignoreClass3 THEN c
        ELSE IF normalize(s.status) # <<>> /\ normalize(s.status) # <<"primary">> THEN c
        ELSE IF includes(bucket, <<"ranged">>) THEN [c3 EXCEPT !.ranged = @ + 1]
        ELSE c3

CountSignUp3(c, s) ==
    LET bucket == normalize(OrElse(s.roleName, s.className))
    IN  IF normalize(s.className) \in ignoreClass3 THEN c
        ELSE IF normalize(s.status) # <<>> /\ normalize(s.status) # <<"primary">> THEN c
        ELSE IF includes(bucket, <<"tank">>) THEN [c EXCEPT !.tanks = @ + 1]
        ELSE IF includes(bucket, <<"heal">>) THEN CountHealer(c, s)
        ELSE IF includes(bucket, <<"melee">>) THEN [c EXCEPT !.melee = @ + 1]
        ELSE IF includes(bucket, <<"ranged">>) THEN [c EXCEPT !.ranged = @ + 1]
        ELSE IF bucket = <<"dps">> \/ includes(bucket, <<"damage">>)
             THEN [c EXCEPT !.ranged = @ + 1]
        ELSE c

RECURSIVE CountAll3(_, _)
CountAll3(c, list) ==
    IF list = <<>> THEN c ELSE CountAll3(CountSignUp3(c, Head(list)), Tail(list))

countRoles3(eventJson) == CountAll3(ZeroCounts, eventJson.signUps)

\* src/unnamed/part_002: the countRoles that tests the role field only.
excluded == {<<"bench">>, <<"benched">>, <<"late">>, <<"tentative">>, <<"absence">>,
             <<"absent">>, <<"declined">>, <<"cancelled">>, <<"canceled">>}

isIncludedStatus(statusRaw) ==
    IF normalize(statusRaw) = <<>> THEN TRUE
    ELSE normalize(statusRaw) \notin excluded

ignored == {<<"late">>, <<"bench">>, <<"tentative">>, <<"absence">>}

isIgnoredBucket(classNameRaw) == normalize(classNameRaw) \in ignored

CountSignUp2(c, s) ==
    LET role == normalize(s.roleName)
    IN  IF isIgnoredBucket(s.className) THEN c
        ELSE IF ~isIncludedStatus(s.status) THEN c
        ELSE IF includes(role, <<"tank">>) THEN [c EXCEPT !.tanks = @ + 1]
        ELSE IF includes(role, <<"heal">>) THEN CountHealer(c, s)
        ELSE IF \/ includes(role, <<"ranged">>)
                \/ includes(role, <<"r", "dps">>)
                \/ includes(role, <<"range", " ", "dps">>)
                \/ role = <<"r">>
             THEN [c EXCEPT !.ranged = @ + 1]
        ELSE IF \/ includes(role, <<"melee">>)
                \/ includes(role, <<"m", "dps">>)
                \/ includes(role, <<"melee", " ", "dps">>)
                \/ role = <<"m">>
             THEN [c EXCEPT !.melee = @ + 1]
        ELSE IF \/ role = <<"dps">>
                \/ includes(role, <<"damage">>)
                \/ includes(role, <<"dd">>)
             THEN [c EXCEPT !.ranged = @ + 1]
        ELSE c

RECURSIVE CountAll2(_, _)
CountAll2(c, list) ==
    IF list = <<>> THEN c ELSE CountAll2(CountSignUp2(c, Head(list)), Tail(list))

countRoles2(eventJson) == CountAll2(ZeroCounts, eventJson.signUps)

\* ------------------------------------------------------------------------
\* Configuration, source data and rendering
\* ------------------------------------------------------------------------

NumTeams == 2
Teams == 1..NumTeams

TargetTanks == 2
TargetHealers == 4
RaidSize == 20

\* The events the Raid-Helper API serves: [startTime, signUps].
Signup(role, class, status, spec) ==
    [roleName |-> role, className |-> class, status |-> status, specName |-> spec]

EventJson(eventId) ==
    IF eventId.ev = "e1"
    THEN [startTime |-> 7200,
          signUps |-> <<Signup(<<"Tank", "s">>, <<"Warrior">>, <<"primary">>, <<"Protection">>),
                        Signup(<<"Heal", "ers">>, <<"Paladin">>, Undefined, <<"Holy", "1">>),
                        Signup(<<"Melee">>, <<"Bench">>, <<"primary">>, <<"Fury">>)>>]
    ELSE [startTime |-> 3600,
          signUps |-> <<Signup(<<"Ranged">>, <<"Mage">>, <<"Primary">>, <<"Frost">>),
                        Signup(<<"Heal", "ers">>, <<"Druid">>, <<"primary">>, <<"Restoration">>)>>]

\* needCount without the floor at zero.
needCountSigned(have, target) == target - have

needCount(have, target) == Max(0, target - have)

roleBadge(need) == IF need = 0 THEN ":white_check_mark:" ELSE ToString(need)

\* dpsBadges with the test for 2 lost: 2 falls through to "3+".
dpsBadgesNoPair(dpsNeedTotal) ==
    IF dpsNeedTotal <= 0 THEN [ranged |-> ":heart:", melee |-> ":heart:"]
    ELSE IF dpsNeedTotal = 1 THEN [ranged |-> "1", melee |-> "1"]
    ELSE [ranged |-> "3+", melee |-> "3+"]

dpsBadges(dpsNeedTotal) ==
    IF dpsNeedTotal <= 0 THEN [ranged |-> ":heart:", melee |-> ":heart:"]
    ELSE IF dpsNeedTotal = 1 THEN [ranged |-> "1", melee |-> "1"]
    ELSE IF dpsNeedTotal = 2 THEN [ranged |-> "1-2", melee |-> "1-2"]
    ELSE [ranged |-> "3+", melee |-> "3+"]

needLine(label, have, target) ==
    LET need == Max(0, target - have)
    IN  IF need = 0
        THEN [label |-> label, state |-> "FULL", need |-> 0, have |-> have, target |-> target]
        ELSE [label |-> label, state |-> "NEED", need |-> need, have |-> have, target |-> target]

\* toLocaleString with weekday, hour and minute: the minute of the week.
MinutesPerWeek == 10080
WhenOf(startTime) == (startTime \div 60) % MinutesPerWeek

\* BlockNeeds counting the melee sign-ups only as DPS.
BlockNeedsMeleeOnly(c, raidSize) ==
    LET dpsTarget == Max(0, raidSize - (TargetTanks + TargetHealers))
        dpsHave == c.melee
    IN  [dpsTarget |-> dpsTarget,
         dpsHave |-> dpsHave,
         tank |-> needLine("Tank", c.tanks, TargetTanks),
         heals |-> needLine("Heals", c.healers, TargetHealers),
         dps |-> needLine("DPS", dpsHave, dpsTarget)]

\* The need computations of one block of renderDashboardAnsi.
BlockNeeds(c, raidSize) ==
    LET dpsTarget == Max(0, raidSize - (TargetTanks + TargetHealers))
        dpsHave == c.melee + c.ranged
    IN  [dpsTarget |-> dpsTarget,
         dpsHave |-> dpsHave,
         tank |-> needLine("Tank", c.tanks, TargetTanks),
         heals |-> needLine("Heals", c.healers, TargetHealers),
         dps |-> needLine("DPS", dpsHave, dpsTarget)]

DashboardBlock(sm) ==
    LET b == BlockNeeds(sm.counts, sm.raidSize)
    IN  [teamName |-> sm.teamName,
         when |-> WhenOf(sm.startTime),
         tank |-> b.tank,
         heals |-> b.heals,
         healSplit |-> <<sm.counts.mh, sm.counts.rh>>,
         dps |-> b.dps,
         dpsSplit |-> <<sm.counts.melee, sm.counts.ranged>>]

\* renderDashboardAnsi taking the time of a block from the clock instead of
\* the event's start.
renderDashboardAnsiClock(teamSummaries, now) ==
    [kind |-> "dashboard",
     weekOf |-> now,
     fallback |-> Len(teamSummaries) = 0,
     blocks |-> [i \in 1..Len(teamSummaries) |->
                    [DashboardBlock(teamSummaries[i]) EXCEPT !.when = now]]]

\* The text of the dashboard: the header with today's date, then the fallback
\* line (no summary) or one block per summary, in the order of the list.
renderDashboardAnsi(teamSummaries, now) ==
    [kind |-> "dashboard",
     weekOf |-> now,
     fallback |-> Len(teamSummaries) = 0,
     blocks |-> [i \in 1..Len(teamSummaries) |-> DashboardBlock(teamSummaries[i])]]

\* new Map(entries): of two summaries of one name the later one is kept.
ByName(teamSummaries, name) ==
    LET at == {i \in 1..Len(teamSummaries) : teamSummaries[i].teamName = name}
    IN  IF at = {} THEN <<>>
        ELSE <<teamSummaries[CHOOSE i \in at : \A j \in at : j <= i]>>

\* The need computations of one card of renderRecruitmentPost.
CardNeeds(c, raidSize) ==
    LET dpsTarget == Max(0, raidSize - (TargetTanks + TargetHealers))
        tankNeed == needCount(c.tanks, TargetTanks)
        healNeed == needCount(c.healers, TargetHealers)
        dpsHave == c.melee + c.ranged
        dpsNeed == needCount(dpsHave, dpsTarget)
    IN  [dpsTarget |-> dpsTarget, dpsHave |-> dpsHave, tankNeed |-> tankNeed,
         healNeed |-> healNeed, dpsNeed |-> dpsNeed, dps |-> dpsBadges(dpsNeed),
         tank |-> roleBadge(tankNeed), healer |-> roleBadge(healNeed)]

RecruitmentCard(team, found1) ==
    IF found1 = <<>>
    THEN [teamName |-> team, tank |-> ":grey_question:", healer |-> ":grey_question:",
          ranged |-> ":grey_question:", melee |-> ":grey_question:"]
    ELSE LET n == CardNeeds(found1[1].counts, RaidSize)
         IN  [teamName |-> team, tank |-> n.tank, healer |-> n.healer,
              ranged |-> n.dps.ranged, melee |-> n.dps.melee]

\* The text of the recruitment post: one card per configured team, in the
\* order of the configuration.
renderRecruitmentPost(teamSummaries) ==
    [kind |-> "recruitment",
     weekOf |-> 0,
     fallback |-> FALSE,
     blocks |-> [t \in Teams |-> RecruitmentCard(t, ByName(teamSummaries, t))]]

InitialText == [kind |-> "Initializing...", weekOf |-> 0, fallback |-> FALSE, blocks |-> <<>>]
ChatText == [kind |-> "chat", weekOf |-> 0, fallback |-> FALSE, blocks |-> <<>>]

\* InsertByStart comparing b.startTime - a.startTime.
RECURSIVE InsertByStartDescending(_, _)
InsertByStartDescending(sorted, sm) ==
    IF sorted = <<>> THEN <<sm>>
    ELSE IF sm.startTime - sorted[Len(sorted)].startTime > 0
         THEN Append(InsertByStartDescending(SubSeq(sorted, 1, Len(sorted) - 1), sm),
                     sorted[Len(sorted)])
         ELSE Append(sorted, sm)

\* teamSummaries.sort((a, b) => a.startTime - b.startTime): a stable sort.
RECURSIVE InsertByStart(_, _)
InsertByStart(sorted, sm) ==
    IF sorted = <<>> THEN <<sm>>
    ELSE IF sorted[Len(sorted)].startTime - sm.startTime > 0
         THEN Append(InsertByStart(SubSeq(sorted, 1, Len(sorted) - 1), sm), sorted[Len(sorted)])
         ELSE Append(sorted, sm)

RECURSIVE SortByStart(_)
SortByStart(list) ==
    IF list = <<>> THEN <<>>
    ELSE InsertByStart(SortByStart(SubSeq(list, 1, Len(list) - 1)), list[Len(list)])

\* ------------------------------------------------------------------------
\* The need computations on their own: every input of the bounds
\* ------------------------------------------------------------------------

MaxHave == 4
MaxDps == 5

\* Roster sizes below, at and above the sum of the targets, and the configured one.
GapRaidSizes == {0, TargetTanks + TargetHealers - 1, TargetTanks + TargetHealers,
                 TargetTanks + TargetHealers + 1, TargetTanks + TargetHealers + 2,
                 TargetTanks + TargetHealers + 3, RaidSize}

GapCounts == {[tanks |-> t, healers |-> h, melee |-> m, ranged |-> r, mh |-> 0, rh |-> h] :
                 t \in 0..(TargetTanks + 1), h \in 0..(TargetHealers + 1),
                 m \in 0..MaxDps, r \in 0..MaxDps}

GapStart ==
    [pc |-> "start", have |-> 0, target |-> 0, need |-> 0, line |-> needLine("Tank", 0, 0),
     raidSize |-> 0, counts |-> ZeroCounts, card |-> CardNeeds(ZeroCounts, 0),
     block |-> BlockNeeds(ZeroCounts, 0)]

InitGapIdle == gap = GapStart

\* needCount(have, target) and needLine(label, have, target) on one pair.
NeedCase ==
    /\ gap.pc = "start"
    /\ \E have \in 0..MaxHave, target \in 0..MaxHave :
          gap' = [gap EXCEPT !.pc = "need", !.have = have, !.target = target,
                             !.need = needCount(have, target),
                             !.line = needLine("Tank", have, target)]
    /\ UNCHANGED <<scanVars, countVars, pipeVars, exVars>>

\* One summary rendered by both renderers.
RenderCase ==
    /\ gap.pc = "start"
    /\ \E raidSize \in GapRaidSizes, c \in GapCounts :
          gap' = [gap EXCEPT !.pc = "render", !.raidSize = raidSize, !.counts = c,
                             !.card = CardNeeds(c, raidSize),
                             !.block = BlockNeeds(c, raidSize)]
    /\ UNCHANGED <<scanVars, countVars, pipeVars, exVars>>

\* ------------------------------------------------------------------------
\* The pipeline: handlers, runs of updateAllOutputs, the two destinations
\* ------------------------------------------------------------------------

MaxRuns == 2
MaxDay == 1

Runs == 1..MaxRuns
Dest == {"dash", "rec"}

\* Message ids are strings; NoMsg is no message.
NoMsg == <<>>
NewId(n) == <<"new" \o ToString(n)>>

\* A response of the Raid-Helper API: res.ok, res.status and what reading the
\* body gives: "event" is the JSON of the event, "null" the JSON null, any
\* other body a text; Unreadable is a body whose read is rejected.
Unreadable == "#unreadable"
NoResponse == [ok |-> FALSE, status |-> 0, body |-> ""]
Response(status, body) == [ok |-> status \in 200..299, status |-> status, body |-> body]

\* What the API may answer to the fetch of an event.
EventResponses == {Response(200, "event"), Response(200, "null"), Response(404, "not found"),
                   Response(500, "oops"), Response(500, Unreadable)}

\* Errors by their message: the one fetchRaidHelperEvent throws names the
\* status and the body; every other error is told apart from it only.
NoError == [name |-> "none", status |-> 0, body |-> ""]
OtherError == [name |-> "other", status |-> 0, body |-> ""]
EventFetchFailed(status, body) ==
    [name |-> "Raid-Helper fetch failed", status |-> status, body |-> body]

IdleRun ==
    [pc |-> "idle", trigger |-> "none", k |-> 0, eventId |-> NoEvent, summaries |-> <<>>,
     res |-> NoResponse,
     dest |-> "none", msg |-> [d \in Dest |-> NoMsg], text |-> InitialText,
     \* what the run did, for the properties (per team: while the run lasts;
     \* the errors caught: until the dashboard channel has answered)
     outcome |-> [t \in Teams |-> "none"], eventFetches |-> [t \in Teams |-> 0],
     error |-> [t \in Teams |-> NoError],
     answer |-> [d \in Dest |-> "none"], how |-> [d \in Dest |-> "none"],
     sent |-> [d \in Dest |-> 0], edited |-> [d \in Dest |-> NoMsg],
     known |-> [d \in Dest |-> FALSE], reached |-> [d \in Dest |-> FALSE],
     replied |-> FALSE, failedAt |-> "none"]

\* An error leaves the handler: nothing catches it. The locals are gone.
Raise(run) ==
    [run EXCEPT !.pc = "failed", !.failedAt = run.pc, !.k = 0, !.eventId = NoEvent,
                !.summaries = <<>>, !.text = InitialText, !.res = NoResponse,
                !.outcome = IdleRun.outcome, !.eventFetches = IdleRun.eventFetches,
                !.error = IdleRun.error]

\* updateAllOutputs starts with buildTeamSummaries, which asks for the first
\* team's signup channel.
updateAllOutputs(run) ==
    [run EXCEPT !.pc = "team_channel", !.k = 1,
                !.known = [d \in Dest |-> \E r \in Runs : runs[r].how[d] # "none"]]

\* The loop of buildTeamSummaries moves to the next team; after the last one
\* the summaries are sorted and updateAllOutputs asks for the dashboard channel.
AfterTeam(run) ==
    IF run.k < NumTeams
    THEN [run EXCEPT !.k = @ + 1, !.pc = "team_channel", !.eventId = NoEvent]
    ELSE [run EXCEPT !.k = NumTeams + 1, !.pc = "channel", !.dest = "dash",
                     !.eventId = NoEvent,
                     !.summaries = SortByStart(@), !.reached["dash"] = TRUE]

\* `continue`: the team is left out.
teamSkipped(run, why) == AfterTeam([run EXCEPT !.outcome[run.k] = why])

\* The catch of buildTeamSummaries: the error is logged, the loop goes on.
teamThrew(run, err) == teamSkipped([run EXCEPT !.error[run.k] = err], "error")

\* The signup channel answered: a text channel, or none.
channelFetched(run, textBased) ==
    IF textBased THEN [run EXCEPT !.pc = "team_scan"] ELSE teamSkipped(run, "nochannel")

\* scanReturned without the test of the event id.
scanReturnedNoTest(run, eventId) ==
    [run EXCEPT !.eventId = eventId, !.eventFetches[run.k] = @ + 1, !.pc = "team_event"]

\* findLatestRaidHelperEventId returned: no link, or the event is fetched.
scanReturned(run, eventId) ==
    IF ~Truthy(eventId) THEN teamSkipped(run, "nolink")
    ELSE [run EXCEPT !.eventId = eventId, !.eventFetches[run.k] = @ + 1, !.pc = "team_event"]

\* The event was fetched and parsed: its counts are pushed.
eventResolved(run, eventJson) ==
    AfterTeam([run EXCEPT
        !.summaries = Append(@, [teamName |-> run.k, startTime |-> eventJson.startTime,
                                 counts |-> countRoles(eventJson), raidSize |-> RaidSize]),
        !.outcome[run.k] = "ok"])

\* fetchRaidHelperEvent throwing the status without the body.
fetchRaidHelperEventNoBody(res, eventId) ==
    IF ~res.ok
    THEN [threw |-> TRUE, isNull |-> FALSE, json |-> EventJson(eventId),
          error |-> EventFetchFailed(res.status, "")]
    ELSE [threw |-> FALSE, isNull |-> res.body = "null", json |-> EventJson(eventId),
          error |-> NoError]

\* fetchRaidHelperEvent from the answer of fetch(url) on: a status that is
\* not ok throws the error made of the status and the body read (the rejected
\* read throws its own error); else the parsed body is returned.
fetchRaidHelperEvent(res, eventId) ==
    IF ~res.ok
    THEN [threw |-> TRUE, isNull |-> FALSE, json |-> EventJson(eventId),
          error |-> IF res.body = Unreadable THEN OtherError
                    ELSE EventFetchFailed(res.status, res.body)]
    ELSE [threw |-> FALSE, isNull |-> res.body = "null", json |-> EventJson(eventId),
          error |-> NoError]

\* fetch(url) answered: fetchRaidHelperEvent reads the body next.
eventAnswered(run, res) == [run EXCEPT !.res = res, !.pc = "team_body"]

\* The body was read: the error is caught by the loop, countRoles throws on
\* the JSON null, or the summary is pushed.
bodyRead(run) ==
    LET out == fetchRaidHelperEvent(run.res, run.eventId)
        run1 == [run EXCEPT !.res = NoResponse]
    IN  IF out.threw THEN teamThrew(run1, out.error)
        ELSE IF out.isNull THEN teamThrew(run1, OtherError)
        ELSE eventResolved(run1, out.json)

\* ensureBotMessage returns msg; updateAllOutputs renders and calls msg.edit.
ensureReturns(run, id, how) ==
    [run EXCEPT !.msg[run.dest] = id, !.how[run.dest] = how, !.pc = "edit",
                !.text = IF run.dest = "dash" THEN renderDashboardAnsi(run.summaries, today)
                         ELSE renderRecruitmentPost(run.summaries)]

\* ensureBotMessage: with a non-blank id the message is fetched, else created.
ensureBotMessage(run) ==
    IF cfgId[run.dest] # <<>> /\ Len(trim(cfgId[run.dest])) > 0
    THEN [run EXCEPT !.pc = "fetch"]
    ELSE [run EXCEPT !.pc = "send"]

\* The destination channel answered. The errors the team loop caught were
\* logged; the record of them is dropped here.
destinationFetched(run, textBased) ==
    IF textBased THEN ensureBotMessage([run EXCEPT !.error = IdleRun.error]) ELSE Raise(run)

\* fetchAnswered without the return of the fetched message.
fetchAnsweredNoReturn(run, ok) == [run EXCEPT !.pc = "send"]

\* messages.fetch(id) answered: the message is returned, or the catch falls
\* through to send.
fetchAnswered(run, ok) ==
    IF ok THEN ensureReturns(run, trim(cfgId[run.dest]), "fetched")
    ELSE [run EXCEPT !.pc = "send"]

\* editDone returning to the handler after the edit of the dashboard.
editDoneDashboardOnly(run) ==
    [run EXCEPT !.edited[run.dest] = run.msg[run.dest],
                !.pc = IF run.trigger = "interaction" THEN "reply" ELSE "done",
                !.k = 0, !.summaries = <<>>, !.text = InitialText,
                !.outcome = IdleRun.outcome, !.eventFetches = IdleRun.eventFetches,
                !.error = IdleRun.error]

\* msg.edit answered for the dashboard: the recruitment thread is asked for;
\* for the recruitment post: updateAllOutputs returns to the handler.
editDone(run) ==
    IF run.dest = "dash"
    THEN [run EXCEPT !.edited["dash"] = run.msg["dash"], !.dest = "rec", !.pc = "channel",
                     !.reached["rec"] = TRUE]
    ELSE [run EXCEPT !.edited["rec"] = run.msg["rec"],
                     !.pc = IF run.trigger = "interaction" THEN "reply" ELSE "done",
                     !.k = 0, !.summaries = <<>>, !.text = InitialText,
                     !.outcome = IdleRun.outcome, !.eventFetches = IdleRun.eventFetches,
                     !.error = IdleRun.error]

SetRun(r, run) == runs' = [runs EXCEPT ![r] = run]

FreeSlots == {r \in Runs \ {1} : runs[r].pc = "idle"}
FreeSlot == CHOOSE r \in FreeSlots : \A q \in FreeSlots : r <= q

\* client.on("ready"): registerCommands is awaited first.
Ready ==
    /\ runs[1].pc = "idle"
    /\ SetRun(1, [runs[1] EXCEPT !.pc = "register", !.trigger = "ready"])
    /\ UNCHANGED <<cfgId, teamHist, store, sends, timerArmed, today, scanVars, countVars, gapVars, exVars>>

Registered ==
    /\ runs[1].pc = "register"
    /\ \E ok \in BOOLEAN :
          SetRun(1, IF ok THEN updateAllOutputs(runs[1]) ELSE Raise(runs[1]))
    /\ UNCHANGED <<cfgId, teamHist, store, sends, timerArmed, today, scanVars, countVars, gapVars, exVars>>

\* The interval timer calls updateAllOutputs.
TimerFire ==
    /\ timerArmed
    /\ FreeSlots # {}
    /\ SetRun(FreeSlot, updateAllOutputs([runs[FreeSlot] EXCEPT !.trigger = "timer"]))
    /\ UNCHANGED <<cfgId, teamHist, store, sends, timerArmed, today, scanVars, countVars, gapVars, exVars>>

\* client.on("interactionCreate"): only /refreshdashboard defers a reply and
\* runs the pipeline.
Interaction ==
    /\ runs[1].pc # "idle"
    /\ \E kind \in {"component", "othercommand", "refreshdashboard"} :
          IF kind = "refreshdashboard"
          THEN /\ FreeSlots # {}
               /\ SetRun(FreeSlot, [runs[FreeSlot] EXCEPT !.pc = "defer",
                                                          !.trigger = "interaction"])
          ELSE UNCHANGED runs
    /\ UNCHANGED <<cfgId, teamHist, store, sends, timerArmed, today, scanVars, countVars, gapVars, exVars>>

Deferred(r) ==
    /\ runs[r].pc = "defer"
    /\ \E ok \in BOOLEAN :
          SetRun(r, IF ok THEN updateAllOutputs(runs[r]) ELSE Raise(runs[r]))
    /\ UNCHANGED <<cfgId, teamHist, store, sends, timerArmed, today, scanVars, countVars, gapVars, exVars>>

\* client.channels.fetch(team.signupChannelId) answers.
TeamChannel(r) ==
    /\ runs[r].pc = "team_channel"
    /\ \E res \in {"text", "none", "throw"} :
          SetRun(r, IF res = "throw" THEN teamThrew(runs[r], OtherError)
                    ELSE channelFetched(runs[r], res = "text"))
    /\ UNCHANGED <<cfgId, teamHist, store, sends, timerArmed, today, scanVars, countVars, gapVars, exVars>>

\* findLatestRaidHelperEventId answers, or a read of the history throws.
TeamScan(r) ==
    /\ runs[r].pc = "team_scan"
    /\ \E res \in {"scanned", "throw"} :
          SetRun(r, IF res = "throw" THEN teamThrew(runs[r], OtherError)
                    ELSE scanReturned(runs[r],
                                      findLatestRaidHelperEventId(teamHist[runs[r].k])))
    /\ UNCHANGED <<cfgId, teamHist, store, sends, timerArmed, today, scanVars, countVars, gapVars, exVars>>

\* fetch(url) of fetchRaidHelperEvent answers: a response, or a network error.
TeamEvent(r) ==
    /\ runs[r].pc = "team_event"
    /\ \/ \E res \in EventResponses : SetRun(r, eventAnswered(runs[r], res))
       \/ SetRun(r, teamThrew(runs[r], OtherError))
    /\ UNCHANGED <<cfgId, teamHist, store, sends, timerArmed, today, scanVars, countVars, gapVars, exVars>>

\* res.text() or res.json() of fetchRaidHelperEvent answers.
TeamBody(r) ==
    /\ runs[r].pc = "team_body"
    /\ SetRun(r, bodyRead(runs[r]))
    /\ UNCHANGED <<cfgId, teamHist, store, sends, timerArmed, today, scanVars, countVars, gapVars, exVars>>

\* client.channels.fetch of the dashboard channel or the recruitment thread
\* answers.
Channel(r) ==
    /\ runs[r].pc = "channel"
    /\ \E res \in {"text", "none", "throw"} :
          SetRun(r, IF res = "throw" THEN Raise(runs[r])
                    ELSE destinationFetched(runs[r], res = "text"))
    /\ UNCHANGED <<cfgId, teamHist, store, sends, timerArmed, today, scanVars, countVars, gapVars, exVars>>

\* messages.fetch(id) answers: the message whoever wrote it, or an error
\* (unknown message, or any other failure).
Fetch(r) ==
    /\ runs[r].pc = "fetch"
    /\ \E ok \in BOOLEAN :
          /\ ok => trim(cfgId[runs[r].dest]) \in DOMAIN store[runs[r].dest]
          /\ SetRun(r, [fetchAnswered(runs[r], ok) EXCEPT
                            !.answer[runs[r].dest] = IF ok THEN "ok" ELSE "failed"])
    /\ UNCHANGED <<cfgId, teamHist, store, sends, timerArmed, today, scanVars, countVars, gapVars, exVars>>

\* send creating the placeholder twice.
sendTwice(messages, id) ==
    messages @@ (id :> [author |-> "bot", content |-> InitialText])
             @@ (id \o <<"again">> :> [author |-> "bot", content |-> InitialText])

\* textChannel.send("Initializing..."): the channel holds one more message,
\* written by the bot.
send(messages, id) == messages @@ (id :> [author |-> "bot", content |-> InitialText])

\* send("Initializing...") answers: a new message of the bot, or an error.
Send(r) ==
    /\ runs[r].pc = "send"
    /\ LET d == runs[r].dest
           id == NewId(sends[d] + 1)
       IN  \E ok \in BOOLEAN :
              IF ok
              THEN /\ store' = [store EXCEPT ![d] = send(@, id)]
                   /\ sends' = [sends EXCEPT ![d] = @ + 1]
                   /\ SetRun(r, [ensureReturns(runs[r], id, "created") EXCEPT !.sent[d] = @ + 1])
              ELSE /\ SetRun(r, Raise(runs[r]))
                   /\ UNCHANGED <<store, sends>>
    /\ UNCHANGED <<cfgId, teamHist, timerArmed, today, scanVars, countVars, gapVars, exVars>>

\* setInterval reached as soon as the dashboard of the start is edited.
setIntervalEarly(armed, run, d) == armed \/ run.trigger = "ready"

\* The ready handler calls setInterval once its updateAllOutputs has returned,
\* that is after the edit of the recruitment post.
setInterval(armed, run, d) == armed \/ (d = "rec" /\ run.trigger = "ready")

\* msg.edit(text) answers: the bot's own message takes the text; the edit of
\* another author's message is refused, and any edit may fail.
Edit(r) ==
    /\ runs[r].pc = "edit"
    /\ LET d == runs[r].dest
           id == runs[r].msg[d]
       IN  \E ok \in BOOLEAN :
              /\ ok => store[d][id].author = "bot"
              /\ IF ok
                 THEN /\ store' = [store EXCEPT ![d][id].content = runs[r].text]
                      /\ SetRun(r, editDone(runs[r]))
                      /\ timerArmed' = setInterval(timerArmed, runs[r], d)
                 ELSE /\ SetRun(r, Raise(runs[r]))
                      /\ UNCHANGED <<store, timerArmed>>
    /\ UNCHANGED <<cfgId, teamHist, sends, today, scanVars, countVars, gapVars, exVars>>

\* i.editReply answers.
Reply(r) ==
    /\ runs[r].pc = "reply"
    /\ \E ok \in BOOLEAN :
          SetRun(r, IF ok THEN [runs[r] EXCEPT !.pc = "done", !.replied = TRUE]
                    ELSE Raise(runs[r]))
    /\ UNCHANGED <<cfgId, teamHist, store, sends, timerArmed, today, scanVars, countVars, gapVars, exVars>>

\* Midnight passes.
Tick ==
    /\ today < MaxDay
    /\ today' = today + 1
    /\ UNCHANGED <<cfgId, teamHist, store, sends, runs, timerArmed, scanVars, countVars, gapVars, exVars>>

\* The histories of the signup channels: a link in the newest message; a
\* link only in the 51st message of 60; a link button on the 50th message.
HistNewest == [len |-> 3, marks |-> (1 :> "content1")]
HistBeyond == [len |-> 60, marks |-> (51 :> "content1")]
HistEdge == [len |-> 50, marks |-> (50 :> "button2")]

HistCycle(i) ==
    CASE i % 3 = 0 -> HistBeyond
      [] i % 3 = 1 -> HistNewest
      [] OTHER -> HistEdge

\* Two assignments of histories to the teams: the first team without a link
\* in its window, or every team of the first three with one.
HistAssignments == {[t \in Teams |-> HistCycle(t - 1)], [t \in Teams |-> HistCycle(t)]}

\* What a destination starts with: the configured id and the messages there.
OwnMessage == (<<"m1">> :> [author |-> "bot", content |-> InitialText])
ForeignMessage == (<<"m1">> :> [author |-> "other", content |-> ChatText])

DestStart(kind) ==
    CASE kind = "blank" -> [id |-> <<>>, messages |-> <<>>]
      [] kind = "space" -> [id |-> <<" ">>, messages |-> <<>>]
      [] kind = "own" -> [id |-> <<"m1">>, messages |-> OwnMessage]
      [] kind = "padded" -> [id |-> <<" ", "m1", " ">>, messages |-> OwnMessage]
      [] kind = "foreign" -> [id |-> <<"m1">>, messages |-> ForeignMessage]
      [] OTHER -> [id |-> <<"m1">>, messages |-> <<>>]

DestStarts == {<<"blank", "blank">>, <<"own", "padded">>, <<"padded", "space">>,
               <<"foreign", "own">>, <<"gone", "foreign">>, <<"space", "gone">>}

InitPipeWith(starts, hists) ==
    /\ cfgId = [dash |-> DestStart(starts[1]).id, rec |-> DestStart(starts[2]).id]
    /\ store = [dash |-> DestStart(starts[1]).messages, rec |-> DestStart(starts[2]).messages]
    /\ teamHist = hists
    /\ sends = [d \in Dest |-> 0]
    /\ runs = [r \in Runs |-> IdleRun]
    /\ timerArmed = FALSE
    /\ today = 0

InitPipeIdle == InitPipeWith(<<"blank", "blank">>, [t \in Teams |-> HistNewest])

\* ------------------------------------------------------------------------
\* The scanner on its own: every desired count and history of the bounds
\* ------------------------------------------------------------------------

MaxPages == 2

\* Values around the page boundaries, up to MaxPages pages.
Boundaries == {0, 1, 2, 49, 50, 51} \cup
              UNION {{PageLimit * k - 1, PageLimit * k, PageLimit * k + 1} : k \in 1..MaxPages}

DesiredArgs == {[kind |-> "num", n |-> n] : n \in Boundaries \cup {-1}}
                 \cup {[kind |-> "nan", n |-> 0]}

HistLens == Boundaries \cup {PageLimit * MaxPages + 50}

MarkPositions == Boundaries \ {0}

\* At most two messages of a history are not plain chat.
Marks(len) ==
    LET pos == {p \in MarkPositions : p <= len}
    IN  {<<>>} \cup UNION {[{p} -> MsgShapes] : p \in pos}
               \cup UNION {[{pq[1], pq[2]} -> {"content1", "content2", "button2", "short1"}] :
                             pq \in {xy \in pos \X pos : xy[1] < xy[2]}}

Histories == UNION {{[len |-> l, marks |-> m] : m \in Marks(l)} : l \in HistLens}

NoEntry == [roleName |-> Undefined, className |-> Undefined,
            status |-> Undefined, specName |-> Undefined]

InitCount ==
    /\ entry = NoEntry
    /\ cpos = 0
    /\ counts = ZeroCounts
    /\ counts3 = ZeroCounts
    /\ counts2 = ZeroCounts

InitScan ==
    /\ hist \in Histories
    /\ desired \in DesiredArgs
    /\ fs = fetchRecentMessagesStart(desired)
    /\ found = FindAfter(hist, fs)
    /\ InitCount
    /\ InitPipeIdle
    /\ InitGapIdle
    /\ InitExIdle

\* One read of the channel answers; the loop goes on or the messages are
\* searched.
PageRead ==
    /\ fs.pc = "fetching"
    /\ fs' = PageAnswer(hist, fs)
    /\ found' = FindAfter(hist, fs')
    /\ UNCHANGED <<hist, desired, countVars, pipeVars, gapVars, exVars>>

vars == <<scanVars, countVars, pipeVars, gapVars, exVars>>

NextScan == PageRead

SpecScan == InitScan /\ [][NextScan]_vars

\* ------------------------------------------------------------------------
\* The scanner over any read capability that gives at most what is asked for
\* ------------------------------------------------------------------------

\* One read answers with any number of messages up to the limit, the
\* messages after the key or, the key ignored, the newest ones once more.
PageAnswered ==
    /\ fs.pc = "fetching"
    /\ LET rq == fs.reqs[Len(fs.reqs)]
       IN  \E size \in 0..rq.limit, base \in {0, rq.before} :
              fs' = BatchAnswer(fs, [j \in 1..size |-> base + j])

PageReadAny ==
    /\ PageAnswered
    /\ found' = FindAfter(hist, fs')
    /\ UNCHANGED <<hist, desired, countVars, pipeVars, gapVars, exVars>>

InitPaging ==
    /\ hist \in {HistNewest, HistBeyond, HistEdge}
    /\ desired \in DesiredArgs
    /\ fs = fetchRecentMessagesStart(desired)
    /\ found = FindAfter(hist, fs)
    /\ InitCount
    /\ InitPipeIdle
    /\ InitGapIdle
    /\ InitExIdle

NextPaging == PageReadAny

\* Every read of the history is answered: the await of messages.fetch resolves.
SpecPaging == InitPaging /\ [][NextPaging]_vars /\ WF_fs(PageAnswered)

\* ------------------------------------------------------------------------
\* Properties of the scanner
\* ------------------------------------------------------------------------

CeilDiv(a, b) == (a + b - 1) \div b

HasRef(h, i) == Truthy(extractEventIdFromMessage(MsgAt(h, i)))

\* C8: for every desired count N and history, the scanner issues at most
\* ceil(N/100) page reads, accumulates at most N messages, all of them among
\* the N newest, and a reference it returns occurs in one of the N newest
\* messages.
C8_ScanStaysInWindow ==
    /\ Len(fs.reqs) <= CeilDiv(TotalOf(desired), PageLimit)
    /\ Len(fs.all) <= TotalOf(desired)
    /\ \A i \in 1..Len(fs.all) : fs.all[i] <= TotalOf(desired)
    /\ Truthy(found.eventId) =>
          \E i \in 1..Min(TotalOf(desired), hist.len) :
              extractEventIdFromMessage(MsgAt(hist, i)) = found.eventId

\* A scan of more than one page has returned not-found although a message
\* older than the Nth holds a reference.
C8_Witness ==
    /\ fs.pc = "returned"
    /\ Len(fs.reqs) = 2
    /\ ~Truthy(found.eventId)
    /\ \E p \in DOMAIN hist.marks : p > TotalOf(desired) /\ HasRef(hist, p)

\* C9: when one of the N newest messages holds a reference, the scan returns
\* the reference of the newest such message, whatever page it lies on, and
\* looks at no message older than it; otherwise it returns null.
C9_NewestReferenceWins ==
    fs.pc = "returned" =>
        LET n == Min(TotalOf(desired), hist.len)
            refs == {i \in 1..n : HasRef(hist, i)}
        IN  IF refs = {} THEN found.eventId = NoEvent
            ELSE LET m == CHOOSE i \in refs : \A j \in refs : i <= j
                 IN  /\ found.eventId = extractEventIdFromMessage(MsgAt(hist, m))
                     /\ found.inspected = m
                     /\ fs.all[m] = m

\* The newest reference lies on the second page and an older message of the
\* window holds another reference.
C9_Witness ==
    /\ fs.pc = "returned"
    /\ Truthy(found.eventId)
    /\ found.inspected > PageLimit
    /\ \E p \in DOMAIN hist.marks :
          /\ p > found.inspected
          /\ p <= TotalOf(desired)
          /\ HasRef(hist, p)
          /\ extractEventIdFromMessage(MsgAt(hist, p)) # found.eventId

\* The page the channel gives to the i-th read, and the number of messages
\* accumulated before the i-th read was issued.
PageOf(i) == FetchPage(hist, fs.reqs[i].limit, fs.reqs[i].before)

RECURSIVE AccBefore(_)
AccBefore(i) == IF i <= 1 THEN 0 ELSE AccBefore(i - 1) + Len(PageOf(i - 1))

\* C23: the first read carries no before-key; every later read is keyed by
\* the id of the oldest message accumulated so far; every read asks for
\* min(100, N - accumulated) messages; no read follows once N messages are
\* accumulated, a page was empty or a page was shorter than asked for, and one
\* of the three holds when the reading has stopped; with N <= 0 or N not a
\* number no read is issued.
C23_PaginationProtocol ==
    LET N == TotalOf(desired)
        n == Len(fs.reqs)
        answered == IF fs.pc = "returned" THEN n ELSE n - 1
    IN  /\ (desired.kind # "num" \/ desired.n <= 0) => (n = 0 /\ fs.pc = "returned")
        /\ n >= 1 => fs.reqs[1].before = 0
        /\ \A i \in 1..n :
              /\ fs.reqs[i].limit = (IF N - AccBefore(i) < PageLimit THEN N - AccBefore(i)
                                     ELSE PageLimit)
              /\ fs.reqs[i].limit >= 1
              /\ i >= 2 => /\ AccBefore(i) >= 1
                           /\ fs.reqs[i].before = fs.all[AccBefore(i)]
                           /\ \A j \in 1..AccBefore(i) : fs.all[j] <= fs.reqs[i].before
        /\ Len(fs.all) = AccBefore(answered + 1)
        /\ \A i \in 1..(n - 1) :
              /\ Len(PageOf(i)) > 0
              /\ Len(PageOf(i)) = fs.reqs[i].limit
              /\ AccBefore(i + 1) < N
        /\ fs.pc = "fetching" => (n >= 1 /\ Len(fs.all) < N)
        /\ fs.pc = "returned" =>
              \/ Len(fs.all) = N
              \/ n >= 1 /\ Len(PageOf(n)) = 0
              \/ n >= 1 /\ Len(PageOf(n)) < fs.reqs[n].limit

\* A scan for more than a page of a longer history has ended: its second read
\* was keyed by the 100th message and asked for what was left of N.
C23_Witness ==
    /\ fs.pc = "returned"
    /\ TotalOf(desired) > PageLimit
    /\ Len(fs.reqs) = 2
    /\ fs.reqs[1] = [limit |-> PageLimit, before |-> 0]
    /\ fs.reqs[2] = [limit |-> TotalOf(desired) - PageLimit, before |-> PageLimit]
    /\ fs.reqs[2].limit > 1
    /\ Len(fs.all) = TotalOf(desired)
    /\ hist.len > TotalOf(desired)

\* C29: for every N and every read capability that gives at most the number
\* of messages asked for, each iteration of the loop of fetchRecentMessages
\* either ends the loop or adds at least one message to those accumulated,
\* which never exceed N; so the loop ends and the scan of the team finishes
\* with a reference or with null.
C29_ScanTerminates ==
    /\ [][fs'.pc = "returned" \/ Len(fs'.all) > Len(fs.all)]_vars
    /\ [](Len(fs.all) <= TotalOf(desired))
    /\ <>(fs.pc = "returned" /\ found = MessageLoop(hist, fs.all, 1))

\* A scan for more than two pages has finished after three reads of a
\* capability that ignored the key and gave the newest messages again.
C29_Witness ==
    /\ fs.pc = "returned"
    /\ Len(fs.reqs) = 3
    /\ Len(fs.all) = TotalOf(desired)
    /\ fs.all[PageLimit + 1] = 1
    /\ found = MessageLoop(hist, fs.all, 1)
    /\ Truthy(found.eventId)

\* ------------------------------------------------------------------------
\* countRoles on its own: every list of sign-ups of the bounds
\* ------------------------------------------------------------------------

MaxSignUps == 2

RoleNames == {Undefined, <<>>, <<" ">>, <<"Tank", "s">>, <<"Heal", "ers">>, <<"Melee">>,
              <<"Ranged">>, <<" ", "tank", "s", " ">>, <<"Tank", " ", "Heal", "ers">>,
              <<"Ranged", " ", "Melee">>, <<"DPS">>, <<"Damage">>,
              <<"Damage", " ", "Dealer">>, <<"Support">>}
ClassNames == {Undefined, <<"Bench">>, <<" ", "bench">>, <<"BENCH">>, <<"Melee">>,
               <<"Warrior">>}
Statuses == {Undefined, <<" ">>, <<"primary">>, <<"Primary">>, <<"declined">>,
             <<"cancelled">>, <<"confirmed">>, <<"signed">>}
SpecNames == {Undefined, <<"Holy">>, <<"holy">>}

Entries == [roleName : RoleNames, className : ClassNames, status : Statuses,
            specName : SpecNames]

InitScanIdle ==
    /\ hist = [len |-> 0, marks |-> <<>>]
    /\ desired = [kind |-> "nan", n |-> 0]
    /\ fs = fetchRecentMessagesStart(desired)
    /\ found = FindAfter(hist, fs)

\* One iteration over eventJson.signUps: the next sign-up is any entry.
CountNext ==
    /\ cpos < MaxSignUps
    /\ \E s \in Entries :
          /\ entry' = s
          /\ counts' = CountSignUp(counts, s)
          /\ counts3' = CountSignUp3(counts3, s)
          /\ counts2' = CountSignUp2(counts2, s)
    /\ cpos' = cpos + 1
    /\ UNCHANGED <<scanVars, pipeVars, gapVars, exVars>>

InitCountSpec == InitCount /\ InitScanIdle /\ InitPipeIdle /\ InitGapIdle /\ InitExIdle

NextCount == CountNext

SpecCount == InitCountSpec /\ [][NextCount]_vars

RoleSum(c) == c.tanks + c.healers + c.melee + c.ranged

\* The role counts one sign-up may change: none, or exactly one by one.
OneBucket(c, d) ==
    \/ d = c
    \/ /\ RoleSum(d) = RoleSum(c) + 1
       /\ \E f \in {"tanks", "healers", "melee", "ranged"} :
             /\ d[f] = c[f] + 1
             /\ \A g \in {"tanks", "healers", "melee", "ranged"} \ {f} : d[g] = c[g]

\* C10: classification is a partition: every sign-up increments at most one of
\* tanks, healers, melee, ranged, by one, so their sum never exceeds the number
\* of sign-ups processed, and a discarded sign-up changes no count at all.
C10_Partition ==
    /\ [](RoleSum(counts) <= cpos /\ RoleSum(counts3) <= cpos)
    /\ [][OneBucket(counts, counts') /\ OneBucket(counts3, counts3')]_vars

\* Two sign-ups processed: one key naming two roles was counted once by the
\* later countRoles, the other sign-up was discarded.
C10_Witness ==
    /\ cpos = 2
    /\ entry.roleName = <<"Tank", " ", "Heal", "ers">>
    /\ entry.className = <<"Melee">>
    /\ RoleSum(counts3) = 1
    /\ counts3.tanks = 1
    /\ RoleSum(counts) = 0

\* C11: healers = mh + rh after every sign-up processed, in every version of
\* countRoles.
C11_HealerSplit ==
    /\ counts.healers = counts.mh + counts.rh
    /\ counts3.healers = counts3.mh + counts3.rh
    /\ counts2.healers = counts2.mh + counts2.rh

\* Two healers were counted, one of a melee spec and one of another.
C11_Witness ==
    /\ cpos = 2
    /\ counts.mh = 1 /\ counts.rh = 1 /\ counts.healers = 2
    /\ counts3.mh = 1 /\ counts3.rh = 1 /\ counts3.healers = 2

\* A step that processes the sign-up entry'.
Processed == cpos' = cpos + 1

IgnoreSet == {<<"late">>, <<"bench">>, <<"tentative">>, <<"absence">>}
IgnoredClass(s) == normalize(s.className) \in IgnoreSet
BlankRole(s) == normalize(s.roleName) = <<>>
MatchesRole(key) ==
    \/ includes(key, <<"tank">>)
    \/ includes(key, <<"heal">>)
    \/ includes(key, <<"ranged">>)
    \/ includes(key, <<"melee">>)
GenericTokens == {<<"dps">>, <<"damage">>}

\* The bucket of a key by the order tank, heal, ranged, melee, generic token.
BucketInOrder(key) ==
    IF includes(key, <<"tank">>) THEN "tanks"
    ELSE IF includes(key, <<"heal">>) THEN "healers"
    ELSE IF includes(key, <<"ranged">>) THEN "ranged"
    ELSE IF includes(key, <<"melee">>) THEN "melee"
    ELSE IF key \in GenericTokens THEN "ranged"
    ELSE "none"

\* From c to d exactly the role count f went up, by one.
CountedAs(c, d, f) ==
    /\ f \in {"tanks", "healers", "melee", "ranged"}
    /\ d[f] = c[f] + 1
    /\ \A g \in {"tanks", "healers", "melee", "ranged"} \ {f} : d[g] = c[g]

\* C14: a sign-up whose class, trimmed and in lower case, is late, bench,
\* tentative or absence changes no count, whatever its other fields hold.
C14_IgnoredClassDiscarded ==
    [][(Processed /\ IgnoredClass(entry')) => (counts' = counts /\ counts3' = counts3)]_vars

\* C15: for a sign-up that is not discarded (class not ignored, no status) the
\* key is the role when it is not blank and the class when the role is blank
\* (missing, empty or white space only): a blank role with class "Melee"
\* counts as exactly one melee.
C15_FallbackToClass ==
    [][(Processed /\ ~IgnoredClass(entry') /\ entry'.status = Undefined) =>
          /\ (BlankRole(entry') /\ normalize(entry'.className) = <<"melee">>) =>
                /\ counts3' = [counts3 EXCEPT !.melee = @ + 1]
                /\ counts' = [counts EXCEPT !.melee = @ + 1]
          /\ BlankRole(entry') =>
                /\ counts3' = CountSignUp3(counts3, [entry' EXCEPT !.roleName = entry'.className])
                /\ counts' = CountSignUp(counts, [entry' EXCEPT !.roleName = entry'.className])
          /\ ~BlankRole(entry') =>
                /\ counts3' = CountSignUp3(counts3, [entry' EXCEPT !.className = Undefined])
                /\ counts' = CountSignUp(counts, [entry' EXCEPT !.className = Undefined])]_vars

\* C16: a status that is missing, blank or not recognized (confirmed, signed)
\* leaves the sign-up participating, classified as without a status; a
\* recognized non-primary status (declined, cancelled) discards it.
C16_PermissiveStatus ==
    [][(Processed /\ ~IgnoredClass(entry')) =>
          /\ normalize(entry'.status) \in {<<>>, <<"confirmed">>, <<"signed">>} =>
                /\ counts2' = CountSignUp2(counts2, [entry' EXCEPT !.status = Undefined])
                /\ counts3' = CountSignUp3(counts3, [entry' EXCEPT !.status = Undefined])
          /\ normalize(entry'.status) \in {<<"declined">>, <<"cancelled">>} =>
                /\ counts2' = counts2
                /\ counts3' = counts3]_vars

\* C17: the rules are tried in the order tank, heal, ranged, melee, generic
\* token and the first match wins: a participating sign-up whose key matches
\* a rule is counted in the bucket of the first rule of this order.
C17_PriorityOrder ==
    [][(/\ Processed
        /\ ~IgnoredClass(entry')
        /\ entry'.status = Undefined
        /\ ~BlankRole(entry')
        /\ MatchesRole(normalize(entry'.roleName))) =>
          /\ CountedAs(counts2, counts2', BucketInOrder(normalize(entry'.roleName)))
          /\ CountedAs(counts3, counts3', BucketInOrder(normalize(entry'.roleName)))]_vars

\* C18: a participating sign-up whose key is "dps" or "damage" adds one to
\* ranged and nothing else; one whose key matches no rule changes no count.
C18_GenericAndUnknown ==
    [][(/\ Processed
        /\ ~IgnoredClass(entry')
        /\ entry'.status = Undefined
        /\ ~BlankRole(entry')) =>
          LET key == normalize(entry'.roleName)
          IN  /\ key \in GenericTokens =>
                    /\ counts' = [counts EXCEPT !.ranged = @ + 1]
                    /\ counts2' = [counts2 EXCEPT !.ranged = @ + 1]
                    /\ counts3' = [counts3 EXCEPT !.ranged = @ + 1]
              /\ (~MatchesRole(key) /\ key \notin GenericTokens) =>
                    /\ counts' = counts
                    /\ counts2' = counts2
                    /\ counts3' = counts3]_vars

\* The four role counts of c.
Roles(c) == <<c.tanks, c.healers, c.melee, c.ranged>>

\* From c to d the sub-split of one healer went to mh or to rh as the spec
\* name of s says, or nothing of the split changed when no healer was counted.
SplitBySpec(c, d, s) ==
    IF d.healers = c.healers + 1
    THEN /\ d.tanks = c.tanks /\ d.melee = c.melee /\ d.ranged = c.ranged
         /\ IF s.specName # Undefined /\ s.specName \in meleeHealerSpecs
            THEN d.mh = c.mh + 1 /\ d.rh = c.rh
            ELSE d.rh = c.rh + 1 /\ d.mh = c.mh
    ELSE d.healers = c.healers /\ d.mh = c.mh /\ d.rh = c.rh

\* C26: a sign-up counted as a healer adds one to mh exactly when its spec
\* name is a member of meleeHealerSpecs as it stands, and one to rh otherwise,
\* also when the spec name is missing; the spec name changes neither healers
\* nor tanks, melee or ranged: they are what they are for the same sign-up
\* without a spec name.
C26_HealerSubSplit ==
    [][Processed =>
          /\ SplitBySpec(counts, counts', entry')
          /\ SplitBySpec(counts3, counts3', entry')
          /\ Roles(counts') = Roles(CountSignUp(counts, [entry' EXCEPT !.specName = Undefined]))
          /\ Roles(counts3') =
                Roles(CountSignUp3(counts3, [entry' EXCEPT !.specName = Undefined]))]_vars

\* Two healers were counted by both versions: after a healer of
\* the spec "Holy" (melee) came one whose spec is "holy", not a member of the
\* set (ranged).
C26_Witness ==
    /\ cpos = 2
    /\ entry.specName = <<"holy">>
    /\ counts.healers = 2 /\ counts.mh = 1 /\ counts.rh = 1
    /\ counts3.healers = 2 /\ counts3.mh = 1 /\ counts3.rh = 1

\* ------------------------------------------------------------------------
\* The extraction: specification and properties
\* ------------------------------------------------------------------------

InitExtract == InitExIdle /\ InitScanIdle /\ InitCount /\ InitPipeIdle /\ InitGapIdle

NextExtract == ExtractCase

SpecExtract == InitExtract /\ [][NextExtract]_vars

\* The places of a message and the text that stands at each.
PlacesIn(msg) ==
    {Place("content", 0, 0, "content")}
        \cup {Place("embed", i, 0, part) : i \in 1..Len(msg.embeds), part \in EmbedParts}
        \cup UNION {{Place("field", i, j, part) :
                        j \in 1..Len(msg.embeds[i].fields), part \in {"name", "value"}} :
                    i \in 1..Len(msg.embeds)}
        \cup UNION {{Place("component", i, j, "url") : j \in 1..Len(msg.components[i])} :
                    i \in 1..Len(msg.components)}

TextIn(msg, place) ==
    CASE place.kind = "content" -> msg.content
      [] place.kind = "embed" -> msg.embeds[place.i][place.part]
      [] place.kind = "field" -> msg.embeds[place.i].fields[place.j][place.part]
      [] OTHER -> msg.components[place.i][place.j]

\* The priority of a place, the lower the earlier: the content; embed by
\* embed its url, title, description, field by field name then value, author
\* url, footer text; then the components.
PartRank(part) ==
    CASE part = "url" -> 1
      [] part = "title" -> 2
      [] part = "description" -> 3
      [] part = "name" -> 4
      [] part = "value" -> 5
      [] part = "authorUrl" -> 6
      [] OTHER -> 7

PriorityOf(place) ==
    CASE place.kind = "content" -> <<0, 0, 0, 0>>
      [] place.kind = "embed" ->
            <<1, place.i, IF PartRank(place.part) <= 3 THEN 1 ELSE 3, PartRank(place.part)>>
      [] place.kind = "field" -> <<1, place.i, 2, 2 * place.j + PartRank(place.part)>>
      [] OTHER -> <<2, 0, 0, 0>>

RECURSIVE LexLeq(_, _)
LexLeq(a, b) ==
    IF a = <<>> THEN TRUE
    ELSE IF Head(a) # Head(b) THEN Head(a) < Head(b)
    ELSE LexLeq(Tail(a), Tail(b))

\* C24: extractEventIdFromMessage returns the reference of a matching place
\* of the highest priority (content; then embed by embed url, title,
\* description, each field's name then value, author url, footer text; then
\* the urls of the components), whatever reference a place of lower priority
\* holds, and null only when no place matches.
C24_PriorityOfPlaces ==
    ex.pc = "extracted" =>
        LET matching == {pl \in PlacesIn(ex.msg) :
                            Truthy(extractEventIdFromText(TextIn(ex.msg, pl)))}
        IN  IF matching = {} THEN ex.eventId = NoEvent
            ELSE /\ Truthy(ex.eventId)
                 /\ \E pl \in matching :
                       /\ \A other \in matching : LexLeq(PriorityOf(pl), PriorityOf(other))
                       /\ ex.eventId = extractEventIdFromText(TextIn(ex.msg, pl))

\* The footer of the first embed holds one reference and the url of the
\* second embed another: the first embed's wins.
C24_Witness ==
    /\ ex.pc = "extracted"
    /\ Len(ex.msg.embeds) = 2
    /\ ex.msg.embeds[1].footerText = LinkText("raid-helper.dev", 19, "e1")
    /\ ex.msg.embeds[2].url = LinkText("Raid-Helper.DEV", 10, "e2")
    /\ ex.eventId = EventId("e1", 19)

\* ------------------------------------------------------------------------
\* The need computations: specification and properties
\* ------------------------------------------------------------------------

InitGap == InitGapIdle /\ InitCount /\ InitScanIdle /\ InitPipeIdle /\ InitExIdle

NextGap == NeedCase \/ RenderCase

SpecGap == InitGap /\ [][NextGap]_vars

\* C12: need(have, target) is max(0, target - have), never negative, also
\* when have > target; needCount and the need inside needLine agree.
C12_NeedNeverNegative ==
    gap.pc = "need" =>
        /\ gap.need >= 0
        /\ gap.need = (IF gap.target > gap.have THEN gap.target - gap.have ELSE 0)
        /\ gap.line.need = gap.need
        /\ (gap.line.state = "FULL") <=> (gap.need = 0)

\* More is present than the target asks for.
C12_Witness ==
    /\ gap.pc = "need"
    /\ gap.target > 0
    /\ gap.have > gap.target
    /\ gap.need = 0
    /\ gap.line.state = "FULL"

\* C13: dpsTarget = max(0, rosterSize - tankTarget - healerTarget), dpsHave =
\* melee + ranged, dpsNeed = max(0, dpsTarget - dpsHave), none negative, the
\* same in both renderers; roster 20 with counts {2, 4, 5, 5} gives 14, 10, 4
\* and no tank or healer need.
C13_GapValues ==
    gap.pc = "render" =>
        LET c == gap.counts
            rest == gap.raidSize - TargetTanks - TargetHealers
            dpsTarget == IF rest > 0 THEN rest ELSE 0
            dpsHave == c.melee + c.ranged
            dpsNeed == IF dpsTarget > dpsHave THEN dpsTarget - dpsHave ELSE 0
        IN  /\ gap.card.dpsTarget = dpsTarget /\ gap.block.dpsTarget = dpsTarget
            /\ gap.card.dpsHave = dpsHave /\ gap.block.dpsHave = dpsHave
            /\ gap.card.dpsNeed = dpsNeed /\ gap.block.dps.need = dpsNeed
            /\ gap.card.dpsNeed >= 0 /\ gap.card.dpsTarget >= 0
            /\ gap.block.tank.need = gap.card.tankNeed /\ gap.card.tankNeed >= 0
            /\ gap.block.heals.need = gap.card.healNeed /\ gap.card.healNeed >= 0
            /\ (gap.raidSize = 20 /\ c.tanks = 2 /\ c.healers = 4 /\ c.melee = 5 /\ c.ranged = 5)
                  => /\ gap.card.dpsTarget = 14 /\ gap.card.dpsHave = 10
                     /\ gap.card.dpsNeed = 4 /\ gap.block.dps.need = 4
                     /\ gap.card.tankNeed = 0 /\ gap.card.healNeed = 0
                     /\ gap.block.tank.state = "FULL" /\ gap.block.heals.state = "FULL"

\* The scenario of the roster of 20.
C13_Witness ==
    /\ gap.pc = "render"
    /\ gap.raidSize = 20
    /\ gap.counts.tanks = 2 /\ gap.counts.healers = 4
    /\ gap.counts.melee = 5 /\ gap.counts.ranged = 5
    /\ gap.card.dpsNeed = 4
    /\ gap.block.dps.state = "NEED"

\* The markers of the recruitment key.
FullyStaffedMarker == ":white_check_mark:"
NoCapMarker == ":heart:"

\* The badges for a need n of DPS above zero, and of tanks and healers.
BadgesAboveZero ==
    LET n == gap.card.dpsNeed
    IN  /\ n = 1 => gap.card.dps.ranged = "1"
        /\ n = 2 => gap.card.dps.ranged = "1-2"
        /\ n >= 3 => gap.card.dps.ranged = "3+"
        /\ gap.card.dps.melee = gap.card.dps.ranged
        /\ gap.card.tank = (IF gap.card.tankNeed = 0 THEN FullyStaffedMarker
                            ELSE ToString(gap.card.tankNeed))
        /\ gap.card.healer = (IF gap.card.healNeed = 0 THEN FullyStaffedMarker
                              ELSE ToString(gap.card.healNeed))

\* C19 as stated: four buckets of dpsNeed, where 0 gives the fully-staffed
\* marker that tanks and healers show when their need is 0.
C19_BadgeBucketsOriginal ==
    gap.pc = "render" =>
        /\ gap.card.dpsNeed = 0 => gap.card.dps.ranged = FullyStaffedMarker
        /\ BadgesAboveZero

\* C19, amended: four buckets of dpsNeed, where 0 gives the no-cap marker, 1
\* gives "1", 2 gives "1-2" and 3 or more give "3+"; the melee and ranged
\* badges are equal; tank and healer needs show the fully-staffed marker when
\* 0 and the exact integer otherwise.
C19_BadgeBuckets ==
    gap.pc = "render" =>
        /\ gap.card.dpsNeed = 0 => gap.card.dps.ranged = NoCapMarker
        /\ BadgesAboveZero

\* The DPS are complete and so are the healers, while one tank is missing.
C19_Witness ==
    /\ gap.pc = "render"
    /\ gap.card.dpsNeed = 0
    /\ gap.card.dps.ranged = NoCapMarker
    /\ gap.card.tankNeed = 1
    /\ gap.card.tank = "1"
    /\ gap.card.healer = FullyStaffedMarker

\* ------------------------------------------------------------------------
\* The pipeline specification
\* ------------------------------------------------------------------------

Init ==
    /\ \E starts \in DestStarts, hists \in HistAssignments : InitPipeWith(starts, hists)
    /\ InitScanIdle
    /\ InitCount
    /\ InitGapIdle
    /\ InitExIdle

\* No run is in flight.
Quiet == \A r \in Runs : runs[r].pc \in {"idle", "done", "failed"}

TimerFireQuiet == Quiet /\ TimerFire
InteractionQuiet == Quiet /\ Interaction

\* Triggers arrive one at a time: the timer and the users wait for the run in
\* flight to end.
Next ==
    \/ Ready
    \/ Registered
    \/ TimerFireQuiet
    \/ InteractionQuiet
    \/ Tick
    \/ \E r \in Runs : Deferred(r)
    \/ \E r \in Runs : TeamChannel(r)
    \/ \E r \in Runs : TeamScan(r)
    \/ \E r \in Runs : TeamEvent(r)
    \/ \E r \in Runs : TeamBody(r)
    \/ \E r \in Runs : Channel(r)
    \/ \E r \in Runs : Fetch(r)
    \/ \E r \in Runs : Send(r)
    \/ \E r \in Runs : Edit(r)
    \/ \E r \in Runs : Reply(r)

Spec == Init /\ [][Next]_vars

\* ------------------------------------------------------------------------
\* Properties of the pipeline
\* ------------------------------------------------------------------------

InTeams(run) == run.pc \in {"team_channel", "team_scan", "team_event", "team_body"}
Publishing(run) == run.pc \in {"channel", "fetch", "send", "edit"}
HasSummary(run, t) == \E i \in 1..Len(run.summaries) : run.summaries[i].teamName = t

\* C1: over any sequence of runs, at most one message is created per
\* destination: a run that starts after some run has created or resolved the
\* destination's message never calls send there, also when no id is configured.
C1_NoSecondCreate ==
    \A d \in Dest :
        /\ sends[d] <= 1
        /\ \A r \in Runs : runs[r].known[d] => runs[r].sent[d] = 0

\* C3: when the known id is not blank and its fetch succeeds, ensureBotMessage
\* returns that very message, calls no send, and the edit goes to that message.
C3_FetchedMessageIsUsed ==
    \A r \in Runs, d \in Dest :
        runs[r].answer[d] = "ok" =>
            /\ runs[r].how[d] = "fetched"
            /\ runs[r].msg[d] = trim(cfgId[d])
            /\ runs[r].msg[d] \in DOMAIN store[d]
            /\ runs[r].sent[d] = 0
            /\ runs[r].edited[d] \in {NoMsg, trim(cfgId[d])}
            /\ runs[r].edited[d] # NoMsg =>
                  store[d][runs[r].edited[d]].content.kind =
                      (IF d = "dash" THEN "dashboard" ELSE "recruitment")

\* A run fetched the dashboard message under an id configured with blanks
\* around it and edited the dashboard into it.
C3_Witness ==
    \E r \in Runs :
        /\ cfgId["dash"] = <<" ", "m1", " ">>
        /\ runs[r].answer["dash"] = "ok"
        /\ runs[r].edited["dash"] = <<"m1">>
        /\ store["dash"][<<"m1">>].content.kind = "dashboard"
        /\ sends["dash"] = 0

WrongAuthor(d) ==
    /\ trim(cfgId[d]) \in DOMAIN store[d]
    /\ store[d][trim(cfgId[d])].author = "other"

\* C4: when the known id names a message of another author, ensureBotMessage
\* takes the create path and the artifact is edited into the new message; the
\* run does not fail on the edit.
C4_WrongAuthorFallsBack ==
    \A r \in Runs, d \in Dest :
        WrongAuthor(d) =>
            /\ runs[r].how[d] \in {"none", "created"}
            /\ ~(runs[r].pc = "failed" /\ runs[r].failedAt = "edit" /\ runs[r].dest = d)

\* C5: an error in one team's path (signup channel, history, event, counting)
\* never ends the run: the team gets no summary, the loop goes on to every
\* other team, and the run goes on to publish with exactly the summaries of
\* the teams that resolved.
C5_TeamFailureIsolated ==
    \A r \in Runs :
        /\ runs[r].pc = "failed" =>
              runs[r].failedAt \notin {"team_channel", "team_scan", "team_event"}
        /\ (InTeams(runs[r]) \/ Publishing(runs[r])) =>
              \A t \in Teams :
                  /\ t < runs[r].k => runs[r].outcome[t] # "none"
                  /\ HasSummary(runs[r], t) <=> runs[r].outcome[t] = "ok"
        /\ Publishing(runs[r]) => \A t \in Teams : runs[r].outcome[t] # "none"

\* C6: the two artifacts fail independently: a run whose dashboard publish
\* failed (channel, fetch, send or edit) still goes on to the recruitment
\* thread.
C6_ArtifactsIndependent ==
    \A r \in Runs :
        (runs[r].pc = "failed" /\ runs[r].dest = "dash") => runs[r].reached["rec"]

NoRefInWindow(h) == \A i \in 1..Min(LOOKBACK_TOTAL, h.len) : ~HasRef(h, i)

\* C7: for a team whose window of 50 messages holds no reference, the scan
\* returns null, no event fetch is issued, the team has no summary, and every
\* other team is processed before the run publishes.
C7_NoLinkTeamOmitted ==
    \A r \in Runs :
        (InTeams(runs[r]) \/ Publishing(runs[r])) =>
            /\ \A t \in Teams :
                  /\ runs[r].outcome[t] = "nolink" => NoRefInWindow(teamHist[t])
                  /\ NoRefInWindow(teamHist[t]) =>
                        /\ runs[r].eventFetches[t] = 0
                        /\ ~HasSummary(runs[r], t)
                        /\ runs[r].outcome[t] \in {"none", "nochannel", "nolink", "error"}
                        /\ runs[r].pc = "team_event" => runs[r].k # t
            /\ Publishing(runs[r]) => \A t \in Teams : runs[r].outcome[t] # "none"

\* The first team's 50 newest messages hold no link (the 51st does), the
\* second team resolved after it, and the run is publishing.
C7_Witness ==
    \E r \in Runs :
        /\ Publishing(runs[r])
        /\ teamHist[1].len >= LOOKBACK_TOTAL
        /\ HasRef(teamHist[1], LOOKBACK_TOTAL + 1)
        /\ runs[r].outcome[1] = "nolink"
        /\ runs[r].eventFetches[1] = 0
        /\ runs[r].outcome[2] = "ok"
        /\ runs[r].eventFetches[2] = 1
        /\ Len(runs[r].summaries) = 1

\* The teams a written text shows as resolved, and those a run resolved.
TextTeams(c) ==
    IF c.kind = "dashboard" THEN {c.blocks[i].teamName : i \in 1..Len(c.blocks)}
    ELSE {c.blocks[i].teamName : i \in {j \in 1..Len(c.blocks) :
                                           c.blocks[j].tank # ":grey_question:"}}
ResolvedTeams(run) == {t \in Teams : run.outcome[t] = "ok"}

\* The texts written to destination d so far that show the teams run resolved.
WrittenLike(run, d) ==
    {store[d][id].content : id \in {i \in DOMAIN store[d] :
        /\ store[d][i].content.kind = run.text.kind
        /\ TextTeams(store[d][i].content) = ResolvedTeams(run)}}

\* C20 as stated: a run about to edit a destination writes the very text any
\* run over the same source data wrote there, whenever it runs.
C20_SameTextOriginal ==
    \A r \in Runs :
        runs[r].pc = "edit" =>
            \A c \in WrittenLike(runs[r], runs[r].dest) : c = runs[r].text

\* C20, amended: two runs over the same source data write the same text to
\* each destination except for the date in the header of the dashboard: the
\* recruitment post is the same whenever the runs take place, the dashboard is
\* the same when both runs render it on the same date.
C20_SameTextButDate ==
    \A r \in Runs :
        runs[r].pc = "edit" =>
            \A c \in WrittenLike(runs[r], runs[r].dest) :
                /\ [c EXCEPT !.weekOf = runs[r].text.weekOf] = runs[r].text
                /\ runs[r].dest = "rec" => c = runs[r].text
                /\ c.weekOf = runs[r].text.weekOf => c = runs[r].text

\* A run is about to write the dashboard of both teams a day after another
\* run wrote it, and the two texts differ in the date only.
C20_Witness ==
    \E r \in Runs :
        /\ runs[r].pc = "edit"
        /\ runs[r].dest = "dash"
        /\ Len(runs[r].text.blocks) = NumTeams
        /\ runs[r].text.weekOf = 1
        /\ \E c \in WrittenLike(runs[r], "dash") :
              /\ c.weekOf = 0
              /\ c.blocks = runs[r].text.blocks
              /\ c # runs[r].text

\* buildTeamSummaries over every assignment of the three histories to the
\* teams: events in the order of the configuration, against it, the same
\* event for two teams, and teams without a link.
BuildHists == [Teams -> {HistNewest, HistEdge, HistBeyond}]

InitBuild ==
    /\ \E hists \in BuildHists : InitPipeWith(<<"own", "padded">>, hists)
    /\ InitScanIdle
    /\ InitCount
    /\ InitGapIdle
    /\ InitExIdle

SpecBuild == InitBuild /\ [][Next]_vars

\* The summary buildTeamSummaries pushes for team t when it resolves.
SummaryOf(t) ==
    LET eventJson == EventJson(findLatestRaidHelperEventId(teamHist[t]))
    IN  [teamName |-> t, startTime |-> eventJson.startTime,
         counts |-> countRoles(eventJson), raidSize |-> RaidSize]

\* C25: the list buildTeamSummaries returns is in ascending order of start
\* time and holds the summary of every team that resolved, once, and of no
\* other team, whether the teams resolved in the order of their events or not.
C25_SortedPermutation ==
    \A r \in Runs :
        Publishing(runs[r]) =>
            LET list == runs[r].summaries
            IN  /\ \A i \in 1..Len(list), j \in 1..Len(list) :
                      i < j => /\ list[i].startTime <= list[j].startTime
                               /\ list[i].teamName # list[j].teamName
                /\ {list[i] : i \in 1..Len(list)} =
                      {SummaryOf(t) : t \in {u \in Teams : runs[r].outcome[u] = "ok"}}

\* Both teams resolved, the second team's event starts first: the list
\* returned holds the second team before the first.
C25_Witness ==
    \E r \in Runs :
        /\ Publishing(runs[r])
        /\ Len(runs[r].summaries) = 2
        /\ runs[r].summaries[1].teamName = 2
        /\ runs[r].summaries[2].teamName = 1
        /\ runs[r].summaries[1].startTime < runs[r].summaries[2].startTime

BlankId(d) == cfgId[d] = <<>> \/ Len(trim(cfgId[d])) = 0

\* The call of ensureBotMessage by run for destination d has returned.
Ensured(run, d) == run.how[d] # "none"

\* C22: when no id is configured for a destination, or the fetch of the
\* configured id fails, the call of ensureBotMessage sends one placeholder, no
\* second one, and returns the message created (a failed send ends the run
\* with nothing created and nothing edited there); the edit of the run goes to
\* the message returned, and no message is ever edited but the one
\* ensureBotMessage returned to the editing run for that destination.
C22_CreatedMessageIsEdited ==
    /\ [](\A r \in Runs, d \in Dest :
            /\ runs[r].sent[d] <= 1
            /\ (Ensured(runs[r], d) /\ (BlankId(d) \/ runs[r].answer[d] = "failed")) =>
                  /\ runs[r].how[d] = "created"
                  /\ runs[r].sent[d] = 1
                  /\ runs[r].msg[d] \in DOMAIN store[d]
                  /\ runs[r].msg[d] # trim(cfgId[d])
                  /\ store[d][runs[r].msg[d]].author = "bot"
            /\ ~Ensured(runs[r], d) => (runs[r].sent[d] = 0 /\ runs[r].edited[d] = NoMsg)
            /\ runs[r].edited[d] # NoMsg => runs[r].edited[d] = runs[r].msg[d])
    /\ [][\A d \in Dest :
            /\ DOMAIN store'[d] # DOMAIN store[d] =>
                  \E r \in Runs :
                      /\ runs[r].pc = "send" /\ runs[r].dest = d
                      /\ BlankId(d) \/ runs[r].answer[d] = "failed"
                      /\ DOMAIN store'[d] = DOMAIN store[d] \cup {runs'[r].msg[d]}
                      /\ runs'[r].msg[d] \notin DOMAIN store[d]
                      /\ runs'[r].how[d] = "created"
                      /\ runs'[r].pc = "edit"
                      /\ store'[d][runs'[r].msg[d]].content = InitialText
            /\ \A id \in DOMAIN store[d] :
                  store'[d][id] # store[d][id] =>
                      \E r \in Runs :
                          /\ runs[r].pc = "edit" /\ runs[r].dest = d
                          /\ Ensured(runs[r], d)
                          /\ runs[r].msg[d] = id
                          /\ runs'[r].edited[d] = id
                          /\ store'[d][id].content = runs[r].text]_vars

\* The fetch of the configured dashboard message failed, the run created a
\* placeholder and wrote the dashboard into it.
C22_Witness ==
    \E r \in Runs :
        /\ ~BlankId("dash")
        /\ runs[r].answer["dash"] = "failed"
        /\ runs[r].how["dash"] = "created"
        /\ runs[r].sent["dash"] = 1
        /\ runs[r].edited["dash"] = runs[r].msg["dash"]
        /\ runs[r].msg["dash"] # trim(cfgId["dash"])
        /\ store["dash"][runs[r].msg["dash"]].content.kind = "dashboard"

\* Run has asked for or touched a message of destination d.
Touched(run, d) ==
    \/ run.answer[d] # "none" \/ run.how[d] # "none" \/ run.sent[d] > 0
    \/ run.edited[d] # NoMsg
    \/ run.dest = d /\ run.pc \in {"fetch", "send", "edit"}

\* C27: inside one run no message of a destination is fetched, created or
\* edited before every team has been processed; the recruitment thread is
\* touched only after the dashboard was edited; the reply to the request is
\* sent only by a run a request started, after both edits, and never by a run
\* that raised.
C27_OrderInsideRun ==
    \A r \in Runs :
        /\ \A d \in Dest :
              Touched(runs[r], d) =>
                  /\ ~InTeams(runs[r])
                  /\ runs[r].pc \notin {"idle", "register", "defer"}
                  /\ Publishing(runs[r]) => \A t \in Teams : runs[r].outcome[t] # "none"
        /\ InTeams(runs[r]) => \A d \in Dest : ~runs[r].reached[d]
        /\ (runs[r].reached["rec"] \/ Touched(runs[r], "rec")) =>
              /\ runs[r].edited["dash"] # NoMsg
              /\ runs[r].edited["dash"] = runs[r].msg["dash"]
        /\ (runs[r].pc = "reply" \/ runs[r].replied) =>
              /\ runs[r].trigger = "interaction"
              /\ runs[r].edited["dash"] # NoMsg
              /\ runs[r].edited["rec"] # NoMsg
        /\ runs[r].replied => runs[r].pc = "done"
        /\ runs[r].pc = "failed" => ~runs[r].replied

\* A request was answered: its run edited the dashboard, then the
\* recruitment post, then replied; the run of the start raised at the
\* recruitment thread without a reply.
C27_Witness ==
    \E r \in Runs :
        /\ runs[r].trigger = "interaction"
        /\ runs[r].replied
        /\ runs[r].edited["dash"] # NoMsg
        /\ runs[r].edited["rec"] # NoMsg
        /\ runs[1].pc = "failed"
        /\ runs[1].failedAt = "channel"
        /\ runs[1].dest = "rec"

\* C28: the timer is armed only once the run of the start has returned
\* without raising; when registerCommands or that run raises, the timer is
\* never armed and no run is ever started by the timer: only requests start
\* runs from then on.
C28_TimerAfterFirstRun ==
    /\ [](/\ timerArmed =>
                /\ runs[1].trigger = "ready"
                /\ runs[1].pc = "done"
                /\ runs[1].edited["dash"] # NoMsg
                /\ runs[1].edited["rec"] # NoMsg
          /\ \A r \in Runs : runs[r].trigger = "timer" => timerArmed
          /\ runs[1].pc = "failed" =>
                /\ ~timerArmed
                /\ \A r \in Runs \ {1} : runs[r].trigger \in {"none", "interaction"})
    /\ [][runs[1].pc = "failed" =>
            /\ runs'[1] = runs[1]
            /\ ~timerArmed'
            /\ \A r \in Runs : runs'[r].trigger # "timer"]_vars

\* The run of the start raised because the dashboard channel did not
\* resolve; the timer is not armed, and a request has run the pipeline to
\* its end.
C28_Witness ==
    /\ runs[1].trigger = "ready"
    /\ runs[1].pc = "failed"
    /\ runs[1].failedAt = "channel"
    /\ runs[1].dest = "dash"
    /\ ~timerArmed
    /\ \E r \in Runs \ {1} :
          /\ runs[r].trigger = "interaction"
          /\ runs[r].pc = "done"
          /\ runs[r].replied
          /\ runs[r].edited["rec"] # NoMsg

InitOverlap ==
    /\ \E starts \in {<<"padded", "own">>, <<"foreign", "blank">>} :
          InitPipeWith(starts, [t \in Teams |-> HistCycle(t - 1)])
    /\ InitScanIdle
    /\ InitCount
    /\ InitGapIdle
    /\ InitExIdle

NextOverlap ==
    \/ Ready
    \/ Registered
    \/ TimerFire
    \/ Interaction
    \/ Tick
    \/ \E r \in Runs : Deferred(r)
    \/ \E r \in Runs : TeamChannel(r)
    \/ \E r \in Runs : TeamScan(r)
    \/ \E r \in Runs : TeamEvent(r)
    \/ \E r \in Runs : TeamBody(r)
    \/ \E r \in Runs : Channel(r)
    \/ \E r \in Runs : Fetch(r)
    \/ \E r \in Runs : Send(r)
    \/ \E r \in Runs : Edit(r)
    \/ \E r \in Runs : Reply(r)

SpecOverlap == InitOverlap /\ [][NextOverlap]_vars

InPipeline(run) == InTeams(run) \/ Publishing(run)

\* C2: at most one run of updateAllOutputs is in progress at any time: a
\* trigger that arrives during a run starts no second run beside it.
C2_OneRunAtATime == Cardinality({r \in Runs : InPipeline(runs[r])}) <= 1

\* ------------------------------------------------------------------------
\* The dashboard-only bot of src/unnamed/part_000: updateDashboard
\* ------------------------------------------------------------------------

lookbackMessages == 75

\* /raid-helper\.dev\/event\/(\d+)/i: any number of digits.
MatchEvent0(text) ==
    IF text.kind = "link" /\ LowerHost(text.host) = "raid-helper.dev" /\ text.digits >= 1
    THEN EventId(text.ev, text.digits)
    ELSE NoEvent

RECURSIVE FirstOfUrls0(_)
FirstOfUrls0(embeds) ==
    IF embeds = <<>> THEN NoEvent
    ELSE IF Truthy(MatchEvent0(Head(embeds).url)) THEN MatchEvent0(Head(embeds).url)
         ELSE FirstOfUrls0(Tail(embeds))

\* msg.content, then the url of every embed.
extractEventIdFromMessage0(msg) ==
    IF Truthy(MatchEvent0(msg.content)) THEN MatchEvent0(msg.content)
    ELSE FirstOfUrls0(msg.embeds)

\* One read of lookbackMessages messages; the first match is returned.
findLatestRaidHelperEventId0(h) ==
    LET messages == FetchPage(h, lookbackMessages, 0)
        hits == {j \in 1..Len(messages) :
                    Truthy(extractEventIdFromMessage0(MsgAt(h, messages[j])))}
    IN  IF hits = {} THEN NoEvent
        ELSE extractEventIdFromMessage0(
                 MsgAt(h, messages[CHOOSE j \in hits : \A k \in hits : j <= k]))

\* renderDashboard: the header and one block per summary.
renderDashboard(teamSummaries, now) ==
    [kind |-> "dashboard",
     weekOf |-> now,
     fallback |-> FALSE,
     blocks |-> [i \in 1..Len(teamSummaries) |-> DashboardBlock(teamSummaries[i])]]

\* updateDashboard starts by asking for the dashboard channel.
updateDashboard(run) == [run EXCEPT !.pc = "dash_channel", !.dest = "dash"]

\* The team loop moves on; after the last team the summaries are sorted and
\* rendered and the dashboard message is asked for.
AfterTeam0(run) ==
    IF run.k < NumTeams
    THEN [run EXCEPT !.k = @ + 1, !.pc = "team_channel", !.eventId = NoEvent]
    ELSE [run EXCEPT !.k = NumTeams + 1, !.pc = "fetch", !.eventId = NoEvent,
                     !.summaries = SortByStart(@),
                     !.text = renderDashboard(SortByStart(run.summaries), today),
                     !.reached["dash"] = TRUE]

teamSkipped0(run, why) == AfterTeam0([run EXCEPT !.outcome[run.k] = why])

Registered0 ==
    /\ runs[1].pc = "register"
    /\ \E ok \in BOOLEAN :
          SetRun(1, IF ok THEN updateDashboard(runs[1]) ELSE Raise(runs[1]))
    /\ UNCHANGED <<cfgId, teamHist, store, sends, timerArmed, today, scanVars, countVars, gapVars, exVars>>

TimerFire0 ==
    /\ timerArmed
    /\ FreeSlots # {}
    /\ SetRun(FreeSlot, updateDashboard([runs[FreeSlot] EXCEPT !.trigger = "timer"]))
    /\ UNCHANGED <<cfgId, teamHist, store, sends, timerArmed, today, scanVars, countVars, gapVars, exVars>>

Deferred0(r) ==
    /\ runs[r].pc = "defer"
    /\ \E ok \in BOOLEAN :
          SetRun(r, IF ok THEN updateDashboard(runs[r]) ELSE Raise(runs[r]))
    /\ UNCHANGED <<cfgId, teamHist, store, sends, timerArmed, today, scanVars, countVars, gapVars, exVars>>

\* client.channels.fetch(CONFIG.dashboardChannelId) answers, before any team.
DashChannel0(r) ==
    /\ runs[r].pc = "dash_channel"
    /\ \E res \in {"text", "none", "throw"} :
          SetRun(r, IF res = "text" THEN [runs[r] EXCEPT !.pc = "team_channel", !.k = 1]
                    ELSE Raise(runs[r]))
    /\ UNCHANGED <<cfgId, teamHist, store, sends, timerArmed, today, scanVars, countVars, gapVars, exVars>>

\* client.channels.fetch(team.signupChannelId) answers: nothing catches a throw.
TeamChannel0(r) ==
    /\ runs[r].pc = "team_channel"
    /\ \E res \in {"text", "none", "throw"} :
          SetRun(r, IF res = "throw" THEN Raise(runs[r])
                    ELSE IF res = "text" THEN [runs[r] EXCEPT !.pc = "team_scan"]
                    ELSE teamSkipped0(runs[r], "nochannel"))
    /\ UNCHANGED <<cfgId, teamHist, store, sends, timerArmed, today, scanVars, countVars, gapVars, exVars>>

TeamScan0(r) ==
    /\ runs[r].pc = "team_scan"
    /\ \E res \in {"scanned", "throw"} :
          LET eventId == findLatestRaidHelperEventId0(teamHist[runs[r].k])
          IN  SetRun(r, IF res = "throw" THEN Raise(runs[r])
                        ELSE IF ~Truthy(eventId) THEN teamSkipped0(runs[r], "nolink")
                        ELSE [runs[r] EXCEPT !.eventId = eventId,
                                             !.eventFetches[runs[r].k] = @ + 1,
                                             !.pc = "team_event"])
    /\ UNCHANGED <<cfgId, teamHist, store, sends, timerArmed, today, scanVars, countVars, gapVars, exVars>>

\* fetchRaidHelperEvent and countRoles: the counts are pushed, or the error
\* leaves updateDashboard.
TeamEvent0(r) ==
    /\ runs[r].pc = "team_event"
    /\ \E res \in {"json", "null", "status", "throw"} :
          SetRun(r, IF res = "json"
                    THEN LET eventJson == EventJson(runs[r].eventId)
                         IN  AfterTeam0([runs[r] EXCEPT
                                 !.summaries = Append(@, [teamName |-> runs[r].k,
                                                          startTime |-> eventJson.startTime,
                                                          counts |-> countRoles(eventJson),
                                                          raidSize |-> RaidSize]),
                                 !.outcome[runs[r].k] = "ok"])
                    ELSE Raise(runs[r]))
    /\ UNCHANGED <<cfgId, teamHist, store, sends, timerArmed, today, scanVars, countVars, gapVars, exVars>>

\* dashboardChannel.messages.fetch(CONFIG.dashboardMessageId) answers.
Fetch0(r) ==
    /\ runs[r].pc = "fetch"
    /\ \E ok \in BOOLEAN :
          /\ ok => cfgId["dash"] \in DOMAIN store["dash"]
          /\ SetRun(r, IF ok THEN [runs[r] EXCEPT !.msg["dash"] = cfgId["dash"],
                                                  !.how["dash"] = "fetched",
                                                  !.answer["dash"] = "ok", !.pc = "edit"]
                       ELSE Raise(runs[r]))
    /\ UNCHANGED <<cfgId, teamHist, store, sends, timerArmed, today, scanVars, countVars, gapVars, exVars>>

\* msg.edit(content) answers; updateDashboard returns to the handler.
Edit0(r) ==
    /\ runs[r].pc = "edit"
    /\ LET id == runs[r].msg["dash"]
       IN  \E ok \in BOOLEAN :
              /\ ok => store["dash"][id].author = "bot"
              /\ IF ok
                 THEN /\ store' = [store EXCEPT !["dash"][id].content = runs[r].text]
                      /\ SetRun(r, [runs[r] EXCEPT
                             !.edited["dash"] = id,
                             !.pc = IF runs[r].trigger = "interaction" THEN "reply" ELSE "done",
                             !.k = 0, !.summaries = <<>>, !.text = InitialText,
                             !.outcome = IdleRun.outcome,
                             !.eventFetches = IdleRun.eventFetches,
                             !.error = IdleRun.error])
                      /\ timerArmed' = (timerArmed \/ runs[r].trigger = "ready")
                 ELSE /\ SetRun(r, Raise(runs[r]))
                      /\ UNCHANGED <<store, timerArmed>>
    /\ UNCHANGED <<cfgId, teamHist, sends, today, scanVars, countVars, gapVars, exVars>>

InitDashboard ==
    /\ \E start \in {"own", "foreign", "gone"}, hists \in HistAssignments :
          InitPipeWith(<<start, "blank">>, hists)
    /\ InitScanIdle
    /\ InitCount
    /\ InitGapIdle
    /\ InitExIdle

NextDashboard ==
    \/ Ready
    \/ Registered0
    \/ TimerFire0
    \/ Interaction
    \/ Tick
    \/ \E r \in Runs : Deferred0(r)
    \/ \E r \in Runs : DashChannel0(r)
    \/ \E r \in Runs : TeamChannel0(r)
    \/ \E r \in Runs : TeamScan0(r)
    \/ \E r \in Runs : TeamEvent0(r)
    \/ \E r \in Runs : Fetch0(r)
    \/ \E r \in Runs : Edit0(r)
    \/ \E r \in Runs : Reply(r)

SpecDashboard == InitDashboard /\ [][NextDashboard]_vars

====
